---- MODULE Spec2Model ----
(***************************************************************************)
(* A model of the code-generation scripts of the FHEVM Example Hub:        *)
(*   scripts/create-example.ts   (ExampleGenerator, and the documentation  *)
(*                                extractor that follows it in the file)   *)
(*   scripts/create-category.ts  (CategoryOrganizer)                       *)
(*                                                                         *)
(* A JavaScript string is a sequence of one-character strings wherever the *)
(* code looks inside it (split, charAt, includes, a regular expression);   *)
(* text that is only interpolated and written out is a TLA+ string.        *)
(***************************************************************************)
EXTENDS Integers, Sequences, FiniteSets, TLC

VARIABLES
    \* the file system and the last process run on it
    dirs,       \* set of directories (a path is a sequence of components)
    files,      \* path -> content (a sequence of lines)
    tool,       \* which script ran last: "none", "create-example", "create-category"
    argv,       \* process.argv.slice(2) of the last run
    stdout,     \* console.log lines of the last run
    stderr,     \* console.error lines of the last run
    exitCode,   \* exit status of the last run
    thrown,     \* the uncaught error that ended the last run, "" when none
    runs,       \* number of processes run so far
    prev,       \* the script, arguments and exit status of the run before the last
    journal,    \* what the last run did, in order: directories made, files
                \* written, lines printed
    \* convertToCamelCase applied to a string, and again to its results
    words,
    \* an extractor of the documentation generator applied to a file's content
    content,    \* the text of the file
    docs,       \* the records extracted, in order
    extractor,  \* "none", "solidity" (extractSolidityDocs), "test" (extractTestDocs)
    scan,       \* the loops of extractTestDocs run step by step: commentLines, the
                \* indices i and j and where the control is; <<>> when not run so
    \* invocations of generate running at the same time on one file system
    procs       \* invocation -> the calls of fs it has still to make, and whether
                \* a directory it found missing was there when it made it; <<>> when none

fsVars == <<dirs, files, tool, argv, stdout, stderr, exitCode, thrown, runs, prev, journal,
            procs>>
docVars == <<content, docs, extractor, scan>>
vars == <<dirs, files, tool, argv, stdout, stderr, exitCode, thrown, runs, prev, journal,
          words, content, docs, extractor, scan, procs>>

(***************************************************************************)
(* Bounds of the model.                                                    *)
(***************************************************************************)
MaxLen == 4
MaxApply == 2
MaxRuns == 2
MaxLines == 4
MaxTagLines == 5
MaxDocs == 3
MaxFiles == 2
MaxBlockLines == 5

(***************************************************************************)
(* Strings.                                                                *)
(***************************************************************************)
RECURSIVE Str(_)
\* the TLA+ string spelled by a sequence of characters
Str(cs) == IF cs = <<>> THEN "" ELSE Head(cs) \o Str(Tail(cs))

LowerCase == <<"a","b","c","d","e","f","g","h","i","j","k","l","m",
               "n","o","p","q","r","s","t","u","v","w","x","y","z">>
UpperCase == <<"A","B","C","D","E","F","G","H","I","J","K","L","M",
               "N","O","P","Q","R","S","T","U","V","W","X","Y","Z">>

\* String.prototype.toUpperCase, for the letters a to z
toUpperCaseChar(c) ==
    IF \E i \in 1..Len(LowerCase) : LowerCase[i] = c
    THEN UpperCase[CHOOSE i \in 1..Len(LowerCase) : LowerCase[i] = c]
    ELSE c

toUpperCase(s) == [i \in 1..Len(s) |-> toUpperCaseChar(s[i])]

\* String.prototype.charAt(0): the first character, "" for the empty string
charAt0(s) == IF s = <<>> THEN <<>> ELSE <<s[1]>>

\* String.prototype.slice(1)
slice1(s) == IF s = <<>> THEN <<>> ELSE Tail(s)

\* index of the first occurrence of character c in s, 0 when there is none
IndexOfChar(s, c) ==
    IF \E i \in 1..Len(s) : s[i] = c
    THEN CHOOSE i \in 1..Len(s) : s[i] = c /\ \A j \in 1..(i-1) : s[j] # c
    ELSE 0

RECURSIVE split(_, _)
\* String.prototype.split with a one-character separator
split(s, sep) ==
    LET i == IndexOfChar(s, sep)
    IN  IF i = 0 THEN <<s>>
        ELSE <<SubSeq(s, 1, i-1)>> \o split(SubSeq(s, i+1, Len(s)), sep)

RECURSIVE join(_)
\* Array.prototype.join("") of an array of strings
join(ws) == IF ws = <<>> THEN <<>> ELSE Head(ws) \o join(Tail(ws))

\* a mutant of capitalize: true camelCase, the first word keeps its case
capitalizeLaterWords(word, index) ==
    IF index = 0 THEN word
    ELSE toUpperCase(charAt0(word)) \o slice1(word)

\* the callback of map in convertToCamelCase: both branches are the same
capitalize(word, index) ==
    IF index = 0 THEN toUpperCase(charAt0(word)) \o slice1(word)
    ELSE toUpperCase(charAt0(word)) \o slice1(word)

convertToCamelCase(str) ==
    LET ws == split(str, "-")
    IN  join([i \in 1..Len(ws) |-> capitalize(ws[i], i-1)])

(***************************************************************************)
(* convertToCamelCase as a pure function: the inputs are all strings of at *)
(* most MaxLen characters over CamelAlphabet; each step applies the        *)
(* function to the last result.                                            *)
(***************************************************************************)
CamelAlphabet == {"a", "z", "B", "7", "-"}

RECURSIVE StringsUpTo(_, _)
StringsUpTo(n, alphabet) ==
    IF n = 0 THEN {<<>>}
    ELSE LET shorter == StringsUpTo(n-1, alphabet)
         IN  shorter \cup {Append(s, c) : s \in {t \in shorter : Len(t) = n-1}, c \in alphabet}

CamelInputs == StringsUpTo(MaxLen, CamelAlphabet) \ {<<>>}

FsInit ==
    /\ dirs = {<<>>}
    /\ files = <<>>
    /\ tool = "none"
    /\ argv = <<>>
    /\ stdout = <<>>
    /\ stderr = <<>>
    /\ exitCode = 0
    /\ thrown = ""
    /\ runs = 0
    /\ prev = [tool |-> "none", argv |-> <<>>, exitCode |-> 0]
    /\ journal = <<>>
    /\ procs = <<>>

DocIdle == content = <<>> /\ docs = <<>> /\ extractor = "none" /\ scan = <<>>

CamelInit ==
    /\ FsInit
    /\ DocIdle
    /\ \E s \in CamelInputs : words = <<s>>

ApplyConvert ==
    /\ Len(words) <= MaxApply
    /\ words' = Append(words, convertToCamelCase(words[Len(words)]))
    /\ UNCHANGED <<fsVars, docVars>>

CamelNext == ApplyConvert

SpecCamel == CamelInit /\ [][CamelNext]_vars

\* what the display-identifier transform is to return: the "-" removed, and a
\* character upper-cased exactly when it starts a segment
SegmentStart(s, i) == i = 1 \/ s[i-1] = "-"

RECURSIVE DisplayIdentifierFrom(_, _)
DisplayIdentifierFrom(s, i) ==
    IF i > Len(s) THEN <<>>
    ELSE (IF s[i] = "-" THEN <<>>
          ELSE IF SegmentStart(s, i) THEN <<toUpperCaseChar(s[i])>> ELSE <<s[i]>>)
         \o DisplayIdentifierFrom(s, i+1)

DisplayIdentifier(s) == DisplayIdentifierFrom(s, 1)

\* C5: the display-identifier transform is total and idempotent: the result is
\* the concatenation of the "-"-delimited segments with the first character of
\* every segment upper-cased and every other character unchanged, and the
\* transform applied to its own result returns that result.
C5_TransformTotalIdempotent ==
    /\ Len(words) >= 2 => words[2] = DisplayIdentifier(words[1])
    /\ Len(words) >= 3 => words[3] = words[2]

\* a two-segment input whose segments both start with a lower-case letter has
\* been transformed, and the transform applied again
C5_Witness ==
    /\ Len(words) = 3
    /\ words[1] = <<"a", "z", "-", "z">>
    /\ words[2] = <<"A", "z", "Z">>
(***************************************************************************)
(* The process and the file system it acts on.  A running process is a     *)
(* record w: the directories and files, the console lines printed so far,  *)
(* and whether it is still running, has called process.exit, or has ended  *)
(* with an uncaught error.  Every statement is an operator from w to w     *)
(* that does nothing once the process has ended.                           *)
(***************************************************************************)
Running(w) == w.status = "running"

\* one thing a process did: a directory made, a file written, a line printed
Event(op, arg) == [op |-> op, arg |-> arg]

\* console.log
log(w, line) ==
    IF Running(w)
    THEN [w EXCEPT !.out = Append(@, line), !.events = Append(@, Event("log", line))]
    ELSE w

\* console.error
error(w, line) ==
    IF Running(w)
    THEN [w EXCEPT !.err = Append(@, line), !.events = Append(@, Event("error", line))]
    ELSE w

\* a mutant of exit: process.exit() without the status
exitWithoutCode(w, code) ==
    IF Running(w) THEN [w EXCEPT !.status = "exited", !.code = 0] ELSE w

\* process.exit(code)
exit(w, code) ==
    IF Running(w) THEN [w EXCEPT !.status = "exited", !.code = code] ELSE w

\* a mutant of throw: the error is caught and reported, the process goes on
throwCaught(w, err) == IF Running(w) THEN [w EXCEPT !.err = Append(@, "Caught " \o err)] ELSE w

\* an error nothing catches: Node prints it and ends the process with status 1
throw(w, err) ==
    IF Running(w)
    THEN [w EXCEPT !.status = "thrown", !.code = 1, !.thrown = err,
                   !.err = Append(@, "Uncaught " \o err)]
    ELSE w

\* fs.existsSync
existsSync(w, p) == p \in w.dirs \/ p \in DOMAIN w.files

Prefixes(p) == {SubSeq(p, 1, n) : n \in 0..Len(p)}

RECURSIVE JoinPath(_)
\* the path as the text the process names it by
JoinPath(p) ==
    IF p = <<>> THEN "."
    ELSE IF Len(p) = 1 THEN p[1]
    ELSE p[1] \o "/" \o JoinPath(Tail(p))

\* a mutant of mkdirSync: without { recursive: true } the parent must exist
mkdirSyncNotRecursive(w, p) ==
    IF ~Running(w) THEN w
    ELSE IF p = <<>> \/ SubSeq(p, 1, Len(p)-1) \notin w.dirs
         THEN throw(w, "Error: ENOENT")
         ELSE [w EXCEPT !.dirs = @ \cup {p},
                        !.events = Append(@, Event("mkdir", JoinPath(p)))]

\* a mutant of mkdirSync: without { recursive: true } an existing p is an error
mkdirSyncExclusive(w, p) ==
    IF ~Running(w) THEN w
    ELSE IF p \in w.dirs \/ \E q \in Prefixes(p) : q \in DOMAIN w.files
         THEN throw(w, "Error: EEXIST")
         ELSE [w EXCEPT !.dirs = @ \cup Prefixes(p),
                        !.events = Append(@, Event("mkdir", JoinPath(p)))]

\* fs.mkdirSync(p, { recursive: true }): p and every missing ancestor
mkdirSync(w, p) ==
    IF ~Running(w) THEN w
    ELSE IF \E q \in Prefixes(p) : q \in DOMAIN w.files
         THEN throw(w, "Error: ENOTDIR/EEXIST")
         ELSE [w EXCEPT !.dirs = @ \cup Prefixes(p),
                        !.events = Append(@, Event("mkdir", JoinPath(p)))]

\* a mutant of writeFileSync: the data is appended to what the file held
appendFileSync(w, p, data) ==
    IF ~Running(w) THEN w
    ELSE IF p = <<>> \/ SubSeq(p, 1, Len(p)-1) \notin w.dirs
         THEN throw(w, "Error: ENOENT")
         ELSE IF p \in w.dirs
              THEN throw(w, "Error: EISDIR")
              ELSE [w EXCEPT !.files =
                       [q \in DOMAIN @ \cup {p} |->
                           IF q # p THEN @[q]
                           ELSE IF p \in DOMAIN @ THEN @[p] \o data ELSE data],
                       !.events = Append(@, Event("write", JoinPath(p)))]

\* a mutant of writeFileSync: a write that cannot succeed is skipped silently
writeFileSyncQuiet(w, p, data) ==
    IF ~Running(w) THEN w
    ELSE IF p = <<>> \/ SubSeq(p, 1, Len(p)-1) \notin w.dirs \/ p \in w.dirs
         THEN w
         ELSE [w EXCEPT !.files =
                  [q \in DOMAIN @ \cup {p} |-> IF q = p THEN data ELSE @[q]],
                  !.events = Append(@, Event("write", JoinPath(p)))]

\* fs.writeFileSync(p, data): creates the file or replaces what it held
writeFileSync(w, p, data) ==
    IF ~Running(w) THEN w
    ELSE IF p = <<>> \/ SubSeq(p, 1, Len(p)-1) \notin w.dirs
         THEN throw(w, "Error: ENOENT")
         ELSE IF p \in w.dirs
              THEN throw(w, "Error: EISDIR")
              ELSE [w EXCEPT !.files =
                       [q \in DOMAIN @ \cup {p} |-> IF q = p THEN data ELSE @[q]],
                       !.events = Append(@, Event("write", JoinPath(p)))]

RECURSIVE pathComponents(_)
\* the components of a relative path: "" and "." name no component
pathComponents(parts) ==
    IF parts = <<>> THEN <<>>
    ELSE (IF Head(parts) = <<>> \/ Head(parts) = <<".">> THEN <<>>
          ELSE <<Str(Head(parts))>>) \o pathComponents(Tail(parts))

\* path.join(a, b) of relative paths without "..": a is a path of the model,
\* b a string
pathJoin(a, b) == a \o pathComponents(split(b, "/"))

RECURSIVE JoinWith(_, _)
\* Array.prototype.join(sep) of an array of TLA+ strings
JoinWith(ss, sep) ==
    IF ss = <<>> THEN ""
    ELSE IF Len(ss) = 1 THEN ss[1]
    ELSE ss[1] \o sep \o JoinWith(Tail(ss), sep)

\* a path as the console shows it
PathStr(p) == IF p = <<>> THEN "." ELSE JoinWith(p, "/")

(***************************************************************************)
(* JavaScript values: a property that is absent reads as undefined, and an *)
(* object literal inherits the properties of Object.prototype.             *)
(***************************************************************************)
JsString(cs) == [t |-> "string", v |-> cs]
JsText(s) == [t |-> "string", v |-> s]
JsArray(a) == [t |-> "object", v |-> a]
UndefinedString == [t |-> "undefined", v |-> <<>>]
UndefinedText == [t |-> "undefined", v |-> ""]
UndefinedArray == [t |-> "undefined", v |-> <<>>]

\* '${x}' for a string kept as characters, and for one kept as text
Interpolate(js) == IF js.t = "undefined" THEN "undefined" ELSE Str(js.v)
InterpolateText(js) == IF js.t = "undefined" THEN "undefined" ELSE js.v

Undefined ==
    [type |-> "undefined", name |-> UndefinedString, description |-> UndefinedText,
     category |-> UndefinedText, features |-> UndefinedArray, examples |-> UndefinedArray,
     concepts |-> UndefinedArray]

\* a function object: of the properties read here it has only 'name'
JsFunction(name) == [Undefined EXCEPT !.type = "function", !.name = JsString(name)]

\* the properties every object inherits from Object.prototype
ObjectPrototypeKeys ==
    { <<"c","o","n","s","t","r","u","c","t","o","r">>, <<"t","o","S","t","r","i","n","g">>, <<"v","a","l","u","e","O","f">>, <<"h","a","s","O","w","n","P","r","o","p","e","r","t","y">>, <<"_","_","p","r","o","t","o","_","_">> }

ObjectPrototype(key) ==
    IF key = <<"c","o","n","s","t","r","u","c","t","o","r">> THEN JsFunction(<<"O","b","j","e","c","t">>)
    ELSE IF key = <<"_","_","p","r","o","t","o","_","_">> THEN [Undefined EXCEPT !.type = "object"]
    ELSE JsFunction(key)

\* table[key] for an object literal given as a sequence of entries
Lookup(table, key) ==
    IF \E i \in 1..Len(table) : table[i].key = key
    THEN (table[CHOOSE i \in 1..Len(table) : table[i].key = key]).value
    ELSE IF key \in ObjectPrototypeKeys THEN ObjectPrototype(key)
    ELSE Undefined

\* Object.keys(table), in insertion order
ObjectKeys(table) == [i \in 1..Len(table) |-> table[i].key]

\* if (!config)
Falsy(v) == v.type = "undefined"

(***************************************************************************)
(* scripts/create-example.ts                                               *)
(***************************************************************************)
ExampleConfig(name, description, category, features) ==
    [Undefined EXCEPT !.type = "object", !.name = JsString(name),
                      !.description = JsText(description),
                      !.category = JsText(category), !.features = JsArray(features)]

EXAMPLE_CATEGORIES ==
    << [key |-> <<"e","n","c","r","y","p","t","e","d","-","c","o","u","n","t","e","r">>,
        value |-> ExampleConfig(<<"E","n","c","r","y","p","t","e","d"," ","C","o","u","n","t","e","r">>,
            "Basic FHE counter demonstrating simple encrypted arithmetic",
            "basic", <<"addition", "subtraction", "encryption">>)],
       [key |-> <<"a","c","c","e","s","s","-","c","o","n","t","r","o","l">>,
        value |-> ExampleConfig(<<"A","c","c","e","s","s"," ","C","o","n","t","r","o","l"," ","S","y","s","t","e","m">>,
            "Advanced access control demonstrating permission management",
            "access-control",
            <<"role-based-permissions", "grant-access", "revoke-access">>)],
       [key |-> <<"e","n","c","r","y","p","t","e","d","-","a","r","i","t","h","m","e","t","i","c">>,
        value |-> ExampleConfig(<<"E","n","c","r","y","p","t","e","d"," ","A","r","i","t","h","m","e","t","i","c">>,
            "Multiple encrypted types with various arithmetic operations",
            "arithmetic",
            <<"addition", "subtraction", "multiplication", "comparison">>)],
       [key |-> <<"u","s","e","r","-","d","e","c","r","y","p","t","i","o","n">>,
        value |-> ExampleConfig(<<"U","s","e","r"," ","D","e","c","r","y","p","t","i","o","n">>,
            "User-initiated decryption of encrypted values",
            "decryption", <<"user-decrypt", "authorized-decryption">>)],
       [key |-> <<"p","u","b","l","i","c","-","d","e","c","r","y","p","t","i","o","n">>,
        value |-> ExampleConfig(<<"P","u","b","l","i","c"," ","D","e","c","r","y","p","t","i","o","n">>,
            "Public decryption of encrypted contract results",
            "decryption", <<"public-decrypt", "result-publication">>)] >>

\* the fixed text of the templates, line by line (a backquote of the source is
\* written ' here)
ContractTemplateHead ==
    << "// SPDX-License-Identifier: BSD-3-Clause-Clear",
       "pragma solidity ^0.8.24;",
       "",
       "import \"@fhevm/solidity/lib/FHE.sol\";",
       "import { ZamaEthereumConfig } from \"@fhevm/solidity/config/ZamaConfig.sol\";",
       "",
       "/**" >>

ContractTemplateBody ==
    << "    /**",
       "     * @notice Example encrypted storage variable",
       "     */",
       "    euint32 private encryptedValue;",
       "",
       "    /**",
       "     * @notice Initialize with encrypted value",
       "     * @param initialValue The initial encrypted value",
       "     */",
       "    constructor() {",
       "        encryptedValue = FHE.asEuint32(0);",
       "    }",
       "",
       "    /**",
       "     * @notice Get the encrypted value",
       "     * @return The encrypted value stored in contract",
       "     */",
       "    function getEncryptedValue() external view returns (euint32) {",
       "        return encryptedValue;",
       "    }",
       "",
       "    /**",
       "     * @notice Set encrypted value",
       "     * @param newValue The new encrypted value to store",
       "     * @param inputProof Proof for input encryption",
       "     */",
       "    function setEncryptedValue(externalEuint32 newValue, bytes calldata inputProof) external {",
       "        euint32 encryptedInput = FHE.fromExternal(newValue, inputProof);",
       "        encryptedValue = encryptedInput;",
       "        FHE.allowThis(encryptedValue);",
       "    }",
       "",
       "    /**",
       "     * @notice Add to encrypted value",
       "     * @param addAmount Amount to add",
       "     * @param inputProof Proof for input encryption",
       "     */",
       "    function addToValue(externalEuint32 addAmount, bytes calldata inputProof) external {",
       "        euint32 encryptedAmount = FHE.fromExternal(addAmount, inputProof);",
       "        encryptedValue = FHE.add(encryptedValue, encryptedAmount);",
       "        FHE.allowThis(encryptedValue);",
       "    }",
       "}",
       "" >>

TestTemplateHead ==
    << "import { expect } from \"chai\";",
       "import { ethers } from \"hardhat\";",
       "import { Contract, Signer } from \"ethers\";",
       "",
       "/**" >>

TestTemplateSetup ==
    << "    let contract: Contract;",
       "    let owner: Signer;",
       "",
       "    before(async function () {",
       "        const [ownerSigner] = await ethers.getSigners();",
       "        owner = ownerSigner;",
       "" >>

TestTemplateBody ==
    << "        contract = await ContractFactory.deploy();",
       "        await contract.waitForDeployment();",
       "    });",
       "",
       "    /**",
       "     * @test Deployment",
       "     * @category basic",
       "     */",
       "    it(\"should deploy successfully\", async function () {",
       "        expect(contract.target).to.not.equal(ethers.ZeroAddress);",
       "    });",
       "",
       "    /**",
       "     * @test Basic operations",
       "     * @category basic",
       "     */",
       "    it(\"should get encrypted value\", async function () {",
       "        const value = await contract.getEncryptedValue();",
       "        expect(value).to.not.be.undefined;",
       "    });",
       "});",
       "" >>

HardhatConfigTemplate ==
    << "import { HardhatUserConfig } from \"hardhat/config\";",
       "import \"@nomiclabs/hardhat-ethers\";",
       "import \"@nomiclabs/hardhat-etherscan\";",
       "import \"hardhat-deploy\";",
       "import \"hardhat-gas-reporter\";",
       "",
       "require(\"dotenv\").config();",
       "",
       "const MNEMONIC = process.env.MNEMONIC || \"test test test test test test test test test test test junk\";",
       "const INFURA_API_KEY = process.env.INFURA_API_KEY || \"\";",
       "",
       "const config: HardhatUserConfig = {",
       "    solidity: {",
       "        version: \"0.8.24\",",
       "        settings: {",
       "            optimizer: { enabled: true, runs: 200 }",
       "        }",
       "    },",
       "    networks: {",
       "        localhost: { url: \"http://127.0.0.1:8545\", chainId: 1337 },",
       "        sepolia: {",
       "            url: 'https://sepolia.infura.io/v3/${INFURA_API_KEY}',",
       "            accounts: { mnemonic: MNEMONIC },",
       "            chainId: 11155111",
       "        }",
       "    }",
       "};",
       "",
       "export default config;",
       "" >>

TsconfigJsonText ==
    << "{",
       "  \"compilerOptions\": {",
       "    \"target\": \"ES2020\",",
       "    \"module\": \"commonjs\",",
       "    \"lib\": [",
       "      \"ES2020\"",
       "    ],",
       "    \"outDir\": \"./dist\",",
       "    \"rootDir\": \"./\",",
       "    \"strict\": true,",
       "    \"esModuleInterop\": true,",
       "    \"skipLibCheck\": true,",
       "    \"forceConsistentCasingInFileNames\": true",
       "  },",
       "  \"include\": [",
       "    \"**/*.ts\"",
       "  ],",
       "  \"exclude\": [",
       "    \"node_modules\",",
       "    \"dist\"",
       "  ]",
       "}" >>

PackageJsonTail ==
    << "  \"scripts\": {",
       "    \"compile\": \"hardhat compile\",",
       "    \"test\": \"hardhat test\",",
       "    \"deploy\": \"hardhat deploy --network sepolia\"",
       "  },",
       "  \"dependencies\": {",
       "    \"@fhevm/solidity\": \"^0.3.0\",",
       "    \"@openzeppelin/contracts\": \"^5.0.1\",",
       "    \"ethers\": \"^6.10.0\"",
       "  },",
       "  \"devDependencies\": {",
       "    \"@nomiclabs/hardhat-ethers\": \"^2.2.3\",",
       "    \"@types/chai\": \"^4.3.11\",",
       "    \"@types/mocha\": \"^10.0.6\",",
       "    \"chai\": \"^4.3.10\",",
       "    \"hardhat\": \"^2.19.4\",",
       "    \"hardhat-deploy\": \"^0.11.45\",",
       "    \"typescript\": \"^5.3.3\"",
       "  }",
       "}" >>

ReadmeTail ==
    << "",
       "## Quick Start",
       "",
       "'''bash",
       "npm install",
       "npm run compile",
       "npm run test",
       "'''",
       "",
       "## Deployment",
       "",
       "'''bash",
       "npm run deploy",
       "'''",
       "" >>


\* generateContractTemplate throws when exampleName is undefined:
\* convertToCamelCase calls split on it
generateContractTemplateThrows(exampleName) == exampleName.t = "undefined"

generateContractTemplate(exampleName, category) ==
    ContractTemplateHead \o
    << " * @title " \o Interpolate(exampleName),
       " * @notice Example demonstrating " \o InterpolateText(category)
           \o " patterns with FHEVM",
       " * @dev This contract showcases how to use encrypted types and operations",
       " */",
       "contract " \o Str(convertToCamelCase(exampleName.v))
           \o " is ZamaEthereumConfig {" >> \o
    ContractTemplateBody

generateTestTemplate(contractName) ==
    TestTemplateHead \o
    << " * @test " \o contractName \o " Test Suite",
       " * @chapter basic",
       " * @description Complete test coverage for the " \o contractName \o " contract",
       " */",
       "describe(\"" \o contractName \o "\", function () {" >> \o
    TestTemplateSetup \o
    << "        const ContractFactory = await ethers.getContractFactory(\""
           \o contractName \o "\");" >> \o
    TestTemplateBody

generateHardhatConfigTemplate == HardhatConfigTemplate

\* JSON.stringify(tsconfig, null, 2)
TsconfigJson == TsconfigJsonText

\* JSON.stringify(packageJson, null, 2): a property whose value is undefined
\* is left out (no string here needs a JSON escape)
PackageJson(exampleKey, description) ==
    << "{",
       "  \"name\": \"fhevm-example-" \o Str(exampleKey) \o "\",",
       "  \"version\": \"1.0.0\"," >> \o
    (IF description.t = "undefined" THEN <<>>
     ELSE << "  \"description\": \"" \o description.v \o "\"," >>) \o
    PackageJsonTail

\* the README template throws when config.features is undefined (.map)
ReadmeThrows(config) == config.features.t = "undefined"

Readme(config) ==
    << "# " \o Interpolate(config.name),
       "",
       InterpolateText(config.description),
       "",
       "## Features",
       "" >> \o
    [i \in 1..Len(config.features.v) |-> "- " \o config.features.v[i]] \o
    ReadmeTail

\* the directories createProjectStructure creates under the project
ProjectDirs ==
    << <<"contracts">>, <<"test">>, <<"deploy">>, <<"tasks">>, <<"scripts">>,
       <<"docs">>, <<".github", "workflows">>, <<".vscode">> >>

RECURSIVE createProjectStructureFrom(_, _, _)
\* dirs.forEach from index i on
createProjectStructureFrom(w, projectPath, i) ==
    IF i > Len(ProjectDirs) THEN w
    ELSE LET fullPath == projectPath \o ProjectDirs[i]
         IN  createProjectStructureFrom(
                 IF ~existsSync(w, fullPath) THEN mkdirSync(w, fullPath) ELSE w,
                 projectPath, i + 1)

createProjectStructure(w, projectPath) == createProjectStructureFrom(w, projectPath, 1)

\* a mutant of generateExample: the test file is written before the contract
generateExampleTestFirst(w, exampleKey, outputDir) ==
    LET config == Lookup(EXAMPLE_CATEGORIES, exampleKey)
    IN  IF Falsy(config)
        THEN exit(error(error(w,
                 "Unknown example: " \o Str(exampleKey)),
                 "Available examples: "
                     \o JoinWith([i \in 1..Len(EXAMPLE_CATEGORIES) |->
                                    Str(ObjectKeys(EXAMPLE_CATEGORIES)[i])], ", ")),
                 1)
        ELSE
        LET projectName == convertToCamelCase(exampleKey)
            projectPath == pathJoin(pathJoin(<<>>, outputDir), projectName)
            w1 == log(log(w, "Creating " \o Interpolate(config.name) \o " example..."),
                      "Location: " \o PathStr(projectPath))
            w2 == createProjectStructure(w1, projectPath)
            testPath == projectPath \o <<"test", Str(projectName) \o ".test.ts">>
            w3 == log(writeFileSync(w2, testPath, generateTestTemplate(Str(projectName))),
                      "[ok] Test file created: " \o PathStr(testPath))
            contractPath == projectPath \o <<"contracts", Str(projectName) \o ".sol">>
            w4 == IF generateContractTemplateThrows(config.name)
                  THEN throw(w3, "TypeError: Cannot read properties of undefined (reading 'split')")
                  ELSE log(writeFileSync(w3, contractPath,
                               generateContractTemplate(config.name, config.category)),
                           "[ok] Contract created: " \o PathStr(contractPath))
            hardhatPath == projectPath \o <<"hardhat.config.ts">>
            w5 == log(writeFileSync(w4, hardhatPath, generateHardhatConfigTemplate),
                      "[ok] Hardhat config created: " \o PathStr(hardhatPath))
            tsconfigPath == projectPath \o <<"tsconfig.json">>
            w6 == log(writeFileSync(w5, tsconfigPath, TsconfigJson),
                      "[ok] TypeScript config created: " \o PathStr(tsconfigPath))
            packageJsonPath == projectPath \o <<"package.json">>
            w7 == log(writeFileSync(w6, packageJsonPath,
                          PackageJson(exampleKey, config.description)),
                      "[ok] Package.json created: " \o PathStr(packageJsonPath))
            readmePath == projectPath \o <<"README.md">>
            w8 == IF ReadmeThrows(config)
                  THEN throw(w7, "TypeError: Cannot read properties of undefined (reading 'map')")
                  ELSE log(writeFileSync(w7, readmePath, Readme(config)),
                           "[ok] README created: " \o PathStr(readmePath))
        IN  log(log(log(log(log(w8,
                "\nExample project created successfully!"),
                "\nNext steps:"),
                "1. cd " \o Str(projectName)),
                "2. npm install"),
                "3. npm run test")

generateExample(w, exampleKey, outputDir) ==
    LET config == Lookup(EXAMPLE_CATEGORIES, exampleKey)
    IN  IF Falsy(config)
        THEN exit(error(error(w,
                 "Unknown example: " \o Str(exampleKey)),
                 "Available examples: "
                     \o JoinWith([i \in 1..Len(EXAMPLE_CATEGORIES) |->
                                    Str(ObjectKeys(EXAMPLE_CATEGORIES)[i])], ", ")),
                 1)
        ELSE
        LET projectName == convertToCamelCase(exampleKey)
            projectPath == pathJoin(pathJoin(<<>>, outputDir), projectName)
            w1 == log(log(w, "Creating " \o Interpolate(config.name) \o " example..."),
                      "Location: " \o PathStr(projectPath))
            w2 == createProjectStructure(w1, projectPath)
            contractPath == projectPath \o <<"contracts", Str(projectName) \o ".sol">>
            w3 == IF generateContractTemplateThrows(config.name)
                  THEN throw(w2, "TypeError: Cannot read properties of undefined (reading 'split')")
                  ELSE log(writeFileSync(w2, contractPath,
                               generateContractTemplate(config.name, config.category)),
                           "[ok] Contract created: " \o PathStr(contractPath))
            testPath == projectPath \o <<"test", Str(projectName) \o ".test.ts">>
            w4 == log(writeFileSync(w3, testPath, generateTestTemplate(Str(projectName))),
                      "[ok] Test file created: " \o PathStr(testPath))
            hardhatPath == projectPath \o <<"hardhat.config.ts">>
            w5 == log(writeFileSync(w4, hardhatPath, generateHardhatConfigTemplate),
                      "[ok] Hardhat config created: " \o PathStr(hardhatPath))
            tsconfigPath == projectPath \o <<"tsconfig.json">>
            w6 == log(writeFileSync(w5, tsconfigPath, TsconfigJson),
                      "[ok] TypeScript config created: " \o PathStr(tsconfigPath))
            packageJsonPath == projectPath \o <<"package.json">>
            w7 == log(writeFileSync(w6, packageJsonPath,
                          PackageJson(exampleKey, config.description)),
                      "[ok] Package.json created: " \o PathStr(packageJsonPath))
            readmePath == projectPath \o <<"README.md">>
            w8 == IF ReadmeThrows(config)
                  THEN throw(w7, "TypeError: Cannot read properties of undefined (reading 'map')")
                  ELSE log(writeFileSync(w7, readmePath, Readme(config)),
                           "[ok] README created: " \o PathStr(readmePath))
        IN  log(log(log(log(log(w8,
                "\nExample project created successfully!"),
                "\nNext steps:"),
                "1. cd " \o Str(projectName)),
                "2. npm install"),
                "3. npm run test")

RECURSIVE listExamplesFrom(_, _)
\* Object.entries(EXAMPLE_CATEGORIES).forEach from index i on
listExamplesFrom(w, i) ==
    IF i > Len(EXAMPLE_CATEGORIES) THEN w
    ELSE LET key == EXAMPLE_CATEGORIES[i].key
             config == EXAMPLE_CATEGORIES[i].value
         IN  listExamplesFrom(
                 log(log(log(log(log(log(w,
                     Str(key)),
                     "   Name: " \o Interpolate(config.name)),
                     "   Description: " \o InterpolateText(config.description)),
                     "   Category: " \o InterpolateText(config.category)),
                     "   Features: " \o JoinWith(config.features.v, ", ")),
                     ""),
                 i + 1)

listExamples(w) == listExamplesFrom(log(w, "Available FHEVM Examples:\n"), 1)

ExampleUsage ==
    << "FHEVM Example Generator",
       "\nUsage: npx ts-node scripts/create-example.ts [command] [options]",
       "\nCommands:",
       "  list                    - List all available examples",
       "  create <example> [dir]  - Create a new example",
       "  help                    - Show this help message",
       "\nExamples:",
       "  npx ts-node scripts/create-example.ts list",
       "  npx ts-node scripts/create-example.ts create encrypted-counter",
       "  npx ts-node scripts/create-example.ts create access-control ./examples" >>

RECURSIVE logAll(_, _)
logAll(w, lines) == IF lines = <<>> THEN w ELSE logAll(log(w, Head(lines)), Tail(lines))

\* main of create-example.ts; args is process.argv.slice(2)
exampleMain(w, args) ==
    IF Len(args) = 0 \/ args[1] = <<"-","-","h","e","l","p">> \/ args[1] = <<"-","h">>
    THEN logAll(w, ExampleUsage)
    ELSE LET command == args[1]
         IN  IF command = <<"l","i","s","t">> THEN listExamples(w)
             ELSE IF command = <<"c","r","e","a","t","e">>
             THEN IF Len(args) < 2
                  THEN exit(error(error(w,
                           "Error: Please specify an example name"),
                           "Usage: npx ts-node scripts/create-example.ts create <example> [dir]"),
                           1)
                  ELSE LET exampleName == args[2]
                           outputDir == IF Len(args) >= 3 /\ args[3] # <<>>
                                        THEN args[3] ELSE <<".">>
                       IN  generateExample(w, exampleName, outputDir)
             ELSE exit(error(error(w,
                      "Unknown command: " \o Str(command)),
                      "Use --help for usage information"),
                      1)

(***************************************************************************)
(* scripts/create-category.ts                                              *)
(***************************************************************************)
Category(name, description, examples, concepts) ==
    [Undefined EXCEPT !.type = "object", !.name = JsString(name),
                      !.description = JsText(description),
                      !.examples = JsArray(examples), !.concepts = JsArray(concepts)]

CATEGORIES ==
    << [key |-> <<"b","a","s","i","c","-","o","p","e","r","a","t","i","o","n","s">>,
        value |-> Category(<<"B","a","s","i","c"," ","O","p","e","r","a","t","i","o","n","s">>,
            "Fundamental FHE operations and patterns",
            <<"encrypted-counter", "encrypted-arithmetic">>,
            <<"Addition", "Subtraction", "Multiplication", "Storage">>)],
       [key |-> <<"e","n","c","r","y","p","t","i","o","n","-","p","a","t","t","e","r","n","s">>,
        value |-> Category(<<"E","n","c","r","y","p","t","i","o","n"," ","P","a","t","t","e","r","n","s">>,
            "Different approaches to encrypting data",
            <<"single-value-encryption", "multi-value-encryption">>,
            <<"Encryption", "Encrypted Types", "Storage", "Permissions">>)],
       [key |-> <<"a","c","c","e","s","s","-","c","o","n","t","r","o","l">>,
        value |-> Category(<<"A","c","c","e","s","s"," ","C","o","n","t","r","o","l">>,
            "Managing permissions and access to encrypted data",
            <<"access-control-system", "role-based-permissions">>,
            <<"Authorization", "Roles", "Permissions", "Access Grants">>)],
       [key |-> <<"d","e","c","r","y","p","t","i","o","n","-","p","a","t","t","e","r","n","s">>,
        value |-> Category(<<"D","e","c","r","y","p","t","i","o","n"," ","P","a","t","t","e","r","n","s">>,
            "How to decrypt and use encrypted results",
            <<"user-decryption", "public-decryption">>,
            <<"User Decryption", "Public Decryption", "Result Publication">>)],
       [key |-> <<"a","d","v","a","n","c","e","d","-","p","a","t","t","e","r","n","s">>,
        value |-> Category(<<"A","d","v","a","n","c","e","d"," ","P","a","t","t","e","r","n","s">>,
            "Complex scenarios combining multiple FHE concepts",
            <<"inventory-management", "blind-auction">>,
            <<"Complex Computations", "Multi-Role Systems", "Event Logging",
              "State Management">>)] >>

\* generateCategoryDocs throws when category.concepts or category.examples is
\* undefined (.forEach), before it writes anything
generateCategoryDocsThrows(category) ==
    category.concepts.t = "undefined" \/ category.examples.t = "undefined"

\* a mutant of CategoryDocs: the examples are listed without their links
CategoryDocsUnlinked(category) ==
    << "# " \o Interpolate(category.name), "",
       InterpolateText(category.description), "",
       "## Concepts Covered", "" >> \o
    [i \in 1..Len(category.concepts.v) |-> "- " \o category.concepts.v[i]] \o
    << "",
       "## Examples", "" >> \o
    [i \in 1..Len(category.examples.v) |-> "- " \o category.examples.v[i]] \o
    << "",
       "## Learning Path", "",
       "Start with the first example and work through each one to build your understanding of these concepts.",
       "" >>

CategoryDocs(category) ==
    << "# " \o Interpolate(category.name), "",
       InterpolateText(category.description), "",
       "## Concepts Covered", "" >> \o
    [i \in 1..Len(category.concepts.v) |-> "- " \o category.concepts.v[i]] \o
    << "",
       "## Examples", "" >> \o
    [i \in 1..Len(category.examples.v) |->
        "- [" \o category.examples.v[i] \o "](../examples/"
              \o category.examples.v[i] \o "/README.md)"] \o
    << "",
       "## Learning Path", "",
       "Start with the first example and work through each one to build your understanding of these concepts.",
       "" >>

generateCategoryDocs(w, category, outputPath) ==
    IF generateCategoryDocsThrows(category)
    THEN throw(w, "TypeError: Cannot read properties of undefined (reading 'forEach')")
    ELSE LET filepath == outputPath \o <<"CATEGORY.md">>
         IN  log(writeFileSync(w, filepath, CategoryDocs(category)),
                 "Generated category docs: " \o PathStr(filepath))

CategoryIndex(category) ==
    << "# " \o Interpolate(category.name), "",
       InterpolateText(category.description), "",
       "## Contents", "" >> \o
    [i \in 1..Len(category.examples.v) |->
        "- [" \o category.examples.v[i] \o "](" \o category.examples.v[i] \o "/)"] \o
    << "" >>

createCategoryStructure(w, categoryKey, outputDir) ==
    LET category == Lookup(CATEGORIES, categoryKey)
    IN  IF Falsy(category)
        THEN error(w, "Unknown category: " \o Str(categoryKey))
        ELSE
        LET categoryPath == pathJoin(pathJoin(<<>>, outputDir), categoryKey)
            w1 == IF ~existsSync(w, categoryPath) THEN mkdirSync(w, categoryPath) ELSE w
            w2 == generateCategoryDocs(w1, category, categoryPath)
            indexPath == categoryPath \o <<"README.md">>
            w3 == IF category.examples.t = "undefined"
                  THEN throw(w2, "TypeError: Cannot read properties of undefined (reading 'forEach')")
                  ELSE writeFileSync(w2, indexPath, CategoryIndex(category))
        IN  log(w3, "Created category structure: " \o PathStr(categoryPath))

RECURSIVE listCategoriesFrom(_, _)
\* Object.entries(CATEGORIES).forEach from index i on
listCategoriesFrom(w, i) ==
    IF i > Len(CATEGORIES) THEN w
    ELSE LET key == CATEGORIES[i].key
             category == CATEGORIES[i].value
         IN  listCategoriesFrom(
                 log(log(log(log(log(w,
                     Interpolate(category.name) \o " (" \o Str(key) \o ")"),
                     "   " \o InterpolateText(category.description)),
                     "   Examples: " \o JoinWith(category.examples.v, ", ")),
                     "   Concepts: " \o JoinWith(category.concepts.v, ", ")),
                     ""),
                 i + 1)

listCategories(w) == listCategoriesFrom(log(w, "Available Categories:\n"), 1)

RECURSIVE createEachCategoryBackFrom(_, _, _)
\* a mutant of createEachCategoryFrom: the keys are taken last to first
createEachCategoryBackFrom(w, outputDir, i) ==
    IF i > Len(CATEGORIES) THEN w
    ELSE createEachCategoryBackFrom(
             createCategoryStructure(w, ObjectKeys(CATEGORIES)[Len(CATEGORIES) + 1 - i],
                                     outputDir),
             outputDir, i + 1)

RECURSIVE createEachCategoryFrom(_, _, _)
\* Object.keys(CATEGORIES).forEach from index i on
createEachCategoryFrom(w, outputDir, i) ==
    IF i > Len(CATEGORIES) THEN w
    ELSE createEachCategoryFrom(
             createCategoryStructure(w, ObjectKeys(CATEGORIES)[i], outputDir),
             outputDir, i + 1)

RECURSIVE MainIndexFrom(_)
MainIndexFrom(i) ==
    IF i > Len(CATEGORIES) THEN <<>>
    ELSE << "## [" \o Interpolate(CATEGORIES[i].value.name) \o "](./"
                \o Str(CATEGORIES[i].key) \o "/README.md)", "",
            InterpolateText(CATEGORIES[i].value.description), "" >>
         \o MainIndexFrom(i + 1)

MainIndex ==
    << "# FHEVM Example Categories", "",
       "This section organizes examples by learning category.", "" >> \o
    MainIndexFrom(1) \o << "" >>

generateAllCategories(w, outputDir) ==
    LET w1 == createEachCategoryFrom(log(w, "Generating all categories...\n"), outputDir, 1)
        mainIndexPath == pathJoin(pathJoin(<<>>, outputDir), <<"C","A","T","E","G","O","R","I","E","S",".","m","d">>)
    IN  log(writeFileSync(w1, mainIndexPath, MainIndex),
            "Generated categories index: " \o PathStr(mainIndexPath))

CategoryUsage ==
    << "FHEVM Category Generator",
       "\nUsage: npx ts-node scripts/create-category.ts [command]",
       "\nCommands:",
       "  list                - List all available categories",
       "  create <category>   - Create a single category",
       "  create-all [dir]    - Create all categories",
       "  help                - Show this help message" >>

\* main of create-category.ts; args is process.argv.slice(2)
categoryMain(w, args) ==
    IF Len(args) = 0 \/ args[1] = <<"-","-","h","e","l","p">> \/ args[1] = <<"-","h">>
    THEN logAll(w, CategoryUsage)
    ELSE LET command == args[1]
         IN  IF command = <<"l","i","s","t">> THEN listCategories(w)
             ELSE IF command = <<"c","r","e","a","t","e">>
             THEN IF Len(args) < 2
                  THEN exit(error(error(w,
                           "Error: Please specify a category name"),
                           "Use 'list' command to see available categories"),
                           1)
                  ELSE LET categoryKey == args[2]
                           categoryOutputDir == IF Len(args) >= 3 /\ args[3] # <<>>
                                                THEN args[3] ELSE <<".","/","d","o","c","s","/","c","a","t","e","g","o","r","i","e","s">>
                       IN  createCategoryStructure(w, categoryKey, categoryOutputDir)
             ELSE IF command = <<"c","r","e","a","t","e","-","a","l","l">>
             THEN LET outputDir == IF Len(args) >= 2 /\ args[2] # <<>>
                                   THEN args[2] ELSE <<".","/","d","o","c","s","/","c","a","t","e","g","o","r","i","e","s">>
                      outputPath == pathJoin(<<>>, outputDir)
                      w1 == IF ~existsSync(w, outputPath) THEN mkdirSync(w, outputPath) ELSE w
                  IN  generateAllCategories(w1, outputDir)
             ELSE exit(error(error(w,
                      "Unknown command: " \o Str(command)),
                      "Use --help for usage information"),
                      1)

(***************************************************************************)
(* The two scripts run, one process after another, on one file system.     *)
(***************************************************************************)
ExampleKeyArgs ==
    { EXAMPLE_CATEGORIES[i].key : i \in 1..Len(EXAMPLE_CATEGORIES) }
    \cup { <<"a","c","c","e","s","s","-","c","o","n","t","r","o","l","-","s","y","s","t","e","m">>,
           <<"n","o","t","-","a","-","r","e","a","l","-","k","e","y">>, <<"c","o","n","s","t","r","u","c","t","o","r">>, <<"t","o","S","t","r","i","n","g">>, <<"_","_","p","r","o","t","o","_","_">> }

ExampleArgvs ==
    { <<>>, << <<"-","-","h","e","l","p">> >>, << <<"-","h">> >>, << <<"l","i","s","t">> >>, << <<"h","e","l","p">> >>,
      << <<"c","r","e","a","t","e">> >>, << <<"c","r","e","a","t","e","-","a","l","l">> >>, << <<"l","i","s","t">>, <<"e","x","t","r","a">> >> }
    \cup { << <<"c","r","e","a","t","e">>, k >> : k \in ExampleKeyArgs }
    \cup { << <<"c","r","e","a","t","e">>, k, <<".","/","e","x","a","m","p","l","e","s">> >> : k \in ExampleKeyArgs }

CategoryKeyArgs ==
    { CATEGORIES[i].key : i \in 1..Len(CATEGORIES) }
    \cup { <<"n","o","-","s","u","c","h","-","c","a","t","e","g","o","r","y">>, <<"c","o","n","s","t","r","u","c","t","o","r">>, <<"_","_","p","r","o","t","o","_","_">> }

CategoryArgvs ==
    { <<>>, << <<"-","-","h","e","l","p">> >>, << <<"-","h">> >>, << <<"l","i","s","t">> >>, << <<"h","e","l","p">> >>,
      << <<"c","r","e","a","t","e">> >>, << <<"g","e","n","e","r","a","t","e">> >>, << <<"c","r","e","a","t","e","-","a","l","l">> >>,
      << <<"c","r","e","a","t","e","-","a","l","l">>, <<"o","u","t">> >> }
    \cup { << <<"c","r","e","a","t","e">>, k >> : k \in CategoryKeyArgs }
    \cup { << <<"c","r","e","a","t","e">>, k, <<"o","u","t">> >> : k \in CategoryKeyArgs }

\* a process started on the file system as it is
Start ==
    [dirs |-> dirs, files |-> files, out |-> <<>>, err |-> <<>>,
     status |-> "running", code |-> 0, thrown |-> "", events |-> <<>>]

Finish(name, args, w) ==
    /\ dirs' = w.dirs
    /\ files' = w.files
    /\ tool' = name
    /\ argv' = args
    /\ stdout' = w.out
    /\ stderr' = w.err
    /\ exitCode' = w.code
    /\ thrown' = w.thrown
    /\ runs' = runs + 1
    /\ prev' = [tool |-> tool, argv |-> argv, exitCode |-> exitCode]
    /\ journal' = w.events
    /\ UNCHANGED <<words, docVars, procs>>

RunCreateExample ==
    /\ runs < MaxRuns
    /\ \E args \in ExampleArgvs : Finish("create-example", args, exampleMain(Start, args))

RunCreateCategory ==
    /\ runs < MaxRuns
    /\ \E args \in CategoryArgvs : Finish("create-category", args, categoryMain(Start, args))

Init == FsInit /\ words = <<>> /\ DocIdle

Next == RunCreateExample \/ RunCreateCategory

Spec == Init /\ [][Next]_vars

(***************************************************************************)
(* Properties of the two command-line scripts.                             *)
(***************************************************************************)
ExampleKeys == { EXAMPLE_CATEGORIES[i].key : i \in 1..Len(EXAMPLE_CATEGORIES) }
CategoryKeys == { CATEGORIES[i].key : i \in 1..Len(CATEGORIES) }

CmdCreate == <<"c","r","e","a","t","e">>
CmdList == <<"l","i","s","t">>
HelpFlags == { <<"-","-","h","e","l","p">>, <<"-","h">> }

\* the commands each script's switch has a case for
Recognized(script) ==
    IF script = "create-example" THEN {CmdList, CmdCreate}
    ELSE {CmdList, CmdCreate, <<"c","r","e","a","t","e","-","a","l","l">>}

\* `create <key> [dir]`
IsCreate(a) == Len(a) >= 2 /\ a[1] = CmdCreate

\* the directory an output-directory argument of the model names
ArgPath(d) ==
    CASE d = <<".","/","e","x","a","m","p","l","e","s">> -> <<"examples">>
      [] d = <<"o","u","t">> -> <<"out">>

\* the output directory of `create <key> [dir]`
OutputRoot(script, a) ==
    IF Len(a) >= 3 THEN ArgPath(a[3])
    ELSE IF script = "create-example" THEN <<>> ELSE <<"docs", "categories">>

\* p is root or lies below it
Under(p, root) == Len(p) >= Len(root) /\ SubSeq(p, 1, Len(root)) = root

\* the project directory dir/<Name> of `create <key> [dir]`
ProjectRoot(a) == OutputRoot("create-example", a) \o <<Str(DisplayIdentifier(a[2]))>>

SixFiles(root, name) ==
    { root \o <<"contracts", name \o ".sol">>,
      root \o <<"test", name \o ".test.ts">>,
      root \o <<"hardhat.config.ts">>,
      root \o <<"tsconfig.json">>,
      root \o <<"package.json">>,
      root \o <<"README.md">> }

EightDirs(root) ==
    { root \o <<"contracts">>, root \o <<"test">>, root \o <<"deploy">>,
      root \o <<"tasks">>, root \o <<"scripts">>, root \o <<"docs">>,
      root \o <<".github", "workflows">>, root \o <<".vscode">> }

\* the step is a run of `script` with arguments a
RunOf(script, a) == runs' = runs + 1 /\ tool' = script /\ argv' = a

\* the step leaves every directory and file as it was
NothingWritten == dirs' = dirs /\ files' = files

C2_UnknownExampleWritesNothing ==
    [][\A a \in ExampleArgvs :
        (RunOf("create-example", a) /\ IsCreate(a) /\ a[2] \notin ExampleKeys) =>
            /\ NothingWritten
            /\ exitCode' # 0
            /\ stderr' = << "Unknown example: " \o Str(a[2]),
                            "Available examples: encrypted-counter, access-control, encrypted-arithmetic, user-decryption, public-decryption" >>
      ]_vars

\* C3: for every key that is not a key of the category catalog,
\* createCategoryStructure(key, dir) creates no directory and writes no file,
\* reports the error and returns normally, and `create <key>` exits with 0.
C3_UnknownCategoryIsNoOp ==
    [][\A a \in CategoryArgvs :
        (RunOf("create-category", a) /\ IsCreate(a) /\ a[2] \notin CategoryKeys) =>
            /\ NothingWritten
            /\ stderr' = << "Unknown category: " \o Str(a[2]) >>
            /\ thrown' = ""
            /\ exitCode' = 0
      ]_vars

\* C4: for every catalog key k, the contract file generate(k, dir) writes
\* declares a contract named <Name>, the display identifier of k, which is the
\* name the generated test file passes to the contract factory; the contract
\* file also contains the entry's category string.
C4_ContractNamedAsFactory ==
    (tool = "create-example" /\ IsCreate(argv) /\ argv[2] \in ExampleKeys /\ exitCode = 0) =>
        LET root == ProjectRoot(argv)
            name == Str(DisplayIdentifier(argv[2]))
            category == Lookup(EXAMPLE_CATEGORIES, argv[2]).category.v
            contract == files[root \o <<"contracts", name \o ".sol">>]
            test == files[root \o <<"test", name \o ".test.ts">>]
        IN  /\ \E i \in 1..Len(contract) :
                   contract[i] = "contract " \o name \o " is ZamaEthereumConfig {"
            /\ \E i \in 1..Len(test) :
                   test[i] = "        const ContractFactory = await ethers.getContractFactory(\""
                                 \o name \o "\");"
            /\ \E i \in 1..Len(contract) :
                   contract[i] = " * @notice Example demonstrating " \o category
                                     \o " patterns with FHEVM"

\* C6: a second generate with the same catalog key and output directory, run
\* right after the first, leaves every file with the content it had and adds
\* or removes nothing.
C6_SecondRunIdentical ==
    [][\A a \in ExampleArgvs :
        (/\ RunOf("create-example", a) /\ IsCreate(a) /\ a[2] \in ExampleKeys
         /\ tool = "create-example" /\ argv = a /\ exitCode = 0) =>
            /\ files' = files
            /\ dirs' = dirs
            /\ exitCode' = 0
      ]_vars

\* `create user-decryption` has run twice in a row, both runs succeeding
C6_Witness ==
    /\ runs = 2
    /\ tool = "create-example" /\ prev.tool = "create-example"
    /\ argv = << CmdCreate, <<"u","s","e","r","-","d","e","c","r","y","p","t","i","o","n">> >> /\ prev.argv = argv
    /\ exitCode = 0 /\ prev.exitCode = 0
    /\ <<"UserDecryption", "README.md">> \in DOMAIN files

\* C7: in both scripts the exit status is 0 when the script is run with no
\* arguments, --help, -h, list, or a create command that succeeds, and 1 when
\* create is given without a key or the first argument is an unrecognized
\* command; in the two failing cases nothing is written.
C7_ExitStatus ==
    [][\A script \in {"create-example", "create-category"} :
       \A a \in ExampleArgvs \cup CategoryArgvs :
        RunOf(script, a) =>
            /\ (Len(a) = 0 \/ (Len(a) >= 1 /\ a[1] \in HelpFlags \cup {CmdList})) =>
                   exitCode' = 0 /\ thrown' = ""
            /\ (IsCreate(a) /\ a[2] \in (IF script = "create-example"
                                        THEN ExampleKeys ELSE CategoryKeys)) =>
                   exitCode' = 0 /\ thrown' = ""
            /\ a = <<CmdCreate>> => exitCode' = 1 /\ NothingWritten
            /\ (Len(a) >= 1 /\ a[1] \notin HelpFlags \cup Recognized(script)) =>
                   exitCode' = 1 /\ NothingWritten
      ]_vars

\* CategoryOrganizer has been run with an unrecognized command and has exited
\* with status 1, after an ExampleGenerator `create` without a key did
C7_Witness ==
    /\ tool = "create-category" /\ argv = << <<"g","e","n","e","r","a","t","e">> >> /\ exitCode = 1
    /\ prev.tool = "create-example" /\ prev.argv = <<CmdCreate>> /\ prev.exitCode = 1
    /\ files = <<>>

(***************************************************************************)
(* The documentation extractor (generate-docs.ts, the second part of       *)
(* src/scripts/create-example.ts).  File contents are strings of           *)
(* characters; a regular expression is modelled by the match the           *)
(* JavaScript engine finds: the leftmost one, greedy or lazy as written.   *)
(***************************************************************************)
\* s has pat at index i
HasAt(s, i, pat) ==
    /\ i >= 1
    /\ i + Len(pat) - 1 <= Len(s)
    /\ \A k \in 1..Len(pat) : s[i + k - 1] = pat[k]

\* the least index >= from at which s has pat, 0 when there is none
IndexOf(s, pat, from) ==
    IF \E i \in from..Len(s) : HasAt(s, i, pat)
    THEN CHOOSE i \in from..Len(s) :
             HasAt(s, i, pat) /\ \A k \in from..(i-1) : ~HasAt(s, k, pat)
    ELSE 0

\* String.prototype.includes
includes(s, pat) == IndexOf(s, pat, 1) # 0

\* the characters \s matches
Whitespace == {" ", "\n", "\t", "\r"}

\* the characters . does not match
LineTerminators == {"\n", "\r"}

\* the least index >= i of s that holds no white space (Len(s)+1 at the end)
SkipWhitespace(s, i) ==
    IF \E k \in i..Len(s) : s[k] \notin Whitespace
    THEN CHOOSE k \in i..Len(s) :
             s[k] \notin Whitespace /\ \A m \in i..(k-1) : s[m] \in Whitespace
    ELSE Len(s) + 1

\* the index of the last character of the line that holds index i
EndOfLine(s, i) ==
    IF \E k \in i..Len(s) : s[k] \in LineTerminators
    THEN (CHOOSE k \in i..Len(s) :
              s[k] \in LineTerminators /\ \A m \in i..(k-1) : s[m] \notin LineTerminators) - 1
    ELSE Len(s)

\* String.prototype.trim
trim(s) ==
    LET first == SkipWhitespace(s, 1)
    IN  IF first > Len(s) THEN <<>>
        ELSE LET last == CHOOSE k \in first..Len(s) :
                             s[k] \notin Whitespace
                             /\ \A m \in (k+1)..Len(s) : s[m] \in Whitespace
             IN  SubSeq(s, first, last)

NoMatch == [found |-> FALSE, group |-> <<>>]

\* the match of /<tag>\s+(.+)/ that starts at index p, where s has the tag:
\* \s+ takes the longest run of white space that leaves .+ a character that
\* is no line terminator, and .+ runs to the end of that line
TagMatchAt(s, p, tag) ==
    LET ws == p + Len(tag)
        stop == SkipWhitespace(s, ws)
        starts == {k \in (ws+1)..stop : k <= Len(s) /\ s[k] \notin LineTerminators}
    IN  IF stop = ws \/ starts = {} THEN NoMatch
        ELSE LET start == CHOOSE k \in starts : \A m \in starts : m <= k
             IN  [found |-> TRUE, group |-> SubSeq(s, start, EndOfLine(s, start))]

\* block.match(/<tag>\s+(.+)/): the leftmost match, its group 1
TagMatch(s, tag) ==
    LET at == {p \in 1..Len(s) : HasAt(s, p, tag) /\ TagMatchAt(s, p, tag).found}
    IN  IF at = {} THEN NoMatch
        ELSE TagMatchAt(s, CHOOSE p \in at : \A q \in at : p <= q, tag)

General == <<"g","e","n","e","r","a","l">>

\* match ? match[1].trim() : fallback
TagOr(s, tag, fallback) ==
    IF TagMatch(s, tag).found THEN trim(TagMatch(s, tag).group) ELSE fallback

DocMetadata(name, category, chapter, description) ==
    [name |-> name, category |-> category, chapter |-> chapter,
     description |-> description]

\* a mutant of solidityDoc: a block without @title is kept, with no name
solidityDocUntitled(commentBlock) ==
    << DocMetadata(TagOr(commentBlock, <<"@","t","i","t","l","e">>, <<>>),
                   TagOr(commentBlock, <<"@","c","a","t","e","g","o","r","y">>, General),
                   TagOr(commentBlock, <<"@","c","h","a","p","t","e","r">>, General),
                   TagOr(commentBlock, <<"@","n","o","t","i","c","e">>, <<>>)) >>

\* the body of the while loop of extractSolidityDocs: what one match pushes
solidityDoc(commentBlock) ==
    IF TagMatch(commentBlock, <<"@","t","i","t","l","e">>).found
    THEN << DocMetadata(trim(TagMatch(commentBlock, <<"@","t","i","t","l","e">>).group),
                        TagOr(commentBlock, <<"@","c","a","t","e","g","o","r","y">>, General),
                        TagOr(commentBlock, <<"@","c","h","a","p","t","e","r">>, General),
                        TagOr(commentBlock, <<"@","n","o","t","i","c","e">>, <<>>)) >>
    ELSE <<>>

\* docRegex of extractSolidityDocs can end its match at q: s has "*/" there,
\* then white space, then `contract` or `function`
DeclarationAfter(s, q) ==
    /\ HasAt(s, q, <<"*","/">>)
    /\ LET k == SkipWhitespace(s, q + 2)
       IN  HasAt(s, k, <<"c","o","n","t","r","a","c","t">>) \/ HasAt(s, k, <<"f","u","n","c","t","i","o","n">>)

\* docRegex.exec(content) with lastIndex = from (indices from 1): the leftmost
\* "/**\n" from which a match exists, its lazy body ending at the first "*/"
\* a declaration follows
DocRegexExec(s, from) ==
    LET opens == {p \in from..Len(s) :
                      /\ HasAt(s, p, <<"/","*","*","\n">>)
                      /\ \E q \in (p+4)..Len(s) : DeclarationAfter(s, q)}
    IN  IF opens = {} THEN [found |-> FALSE, group |-> <<>>, lastIndex |-> from]
        ELSE LET p == CHOOSE x \in opens : \A y \in opens : x <= y
                 q == CHOOSE x \in (p+4)..Len(s) :
                          DeclarationAfter(s, x)
                          /\ \A y \in (p+4)..(x-1) : ~DeclarationAfter(s, y)
             IN  [found |-> TRUE, group |-> SubSeq(s, p + 4, q - 1),
                  lastIndex |-> SkipWhitespace(s, q + 2) + 8]

RECURSIVE extractSolidityDocsFrom(_, _)
\* the while loop of extractSolidityDocs, docRegex.lastIndex = from
extractSolidityDocsFrom(s, from) ==
    LET match == DocRegexExec(s, from)
    IN  IF ~match.found THEN <<>>
        ELSE solidityDoc(match.group) \o extractSolidityDocsFrom(s, match.lastIndex)

\* extractSolidityDocs, of the content read from the file
extractSolidityDocs(s) == extractSolidityDocsFrom(s, 1)

\* testLine.match(/it\("([^"]+)"/): the leftmost it(" that one or more
\* characters other than " and then a " follow
TitleEnd(line, p) == IndexOf(line, <<"\"">>, p + 4)

\* a mutant of testMatch: the title stops at the first white space
testMatchFirstWord(line) ==
    LET at == {p \in 1..Len(line) :
                   HasAt(line, p, <<"i","t","(","\"">>) /\ TitleEnd(line, p) > p + 4}
    IN  IF at = {} THEN NoMatch
        ELSE LET p == CHOOSE x \in at : \A y \in at : x <= y
                 title == SubSeq(line, p + 4, TitleEnd(line, p) - 1)
                 sp == IndexOfChar(title, " ")
             IN  [found |-> TRUE,
                  group |-> IF sp = 0 THEN title ELSE SubSeq(title, 1, sp - 1)]

testMatch(line) ==
    LET at == {p \in 1..Len(line) :
                   HasAt(line, p, <<"i","t","(","\"">>) /\ TitleEnd(line, p) > p + 4}
    IN  IF at = {} THEN NoMatch
        ELSE LET p == CHOOSE x \in at : \A y \in at : x <= y
             IN  [found |-> TRUE,
                  group |-> SubSeq(line, p + 4, TitleEnd(line, p) - 1)]

\* the index of the line that ends the block opened at line i: the first
\* line from i on that includes "*/" (Len + 1 when the block is never closed)
BlockEnd(commentLines, i) ==
    IF \E j \in i..Len(commentLines) : includes(commentLines[j], <<"*","/">>)
    THEN CHOOSE j \in i..Len(commentLines) :
             /\ includes(commentLines[j], <<"*","/">>)
             /\ \A k \in i..(j-1) : ~includes(commentLines[k], <<"*","/">>)
    ELSE Len(commentLines) + 1

RECURSIVE BlockText(_, _, _)
\* commentBlock: the lines i..j-1 each followed by "\n", then line j; a line
\* past the end of the array reads as undefined
BlockText(commentLines, i, j) ==
    IF i < j THEN commentLines[i] \o <<"\n">> \o BlockText(commentLines, i + 1, j)
    ELSE IF j <= Len(commentLines) THEN commentLines[j]
    ELSE <<"u","n","d","e","f","i","n","e","d">>

\* a mutant of testLineAfter: the next line that declares a test, wherever it is
testLineAfterAnyGap(commentLines, j) ==
    IF \E k \in (j+1)..Len(commentLines) : includes(commentLines[k], <<"i","t","(","\"">>)
    THEN commentLines[CHOOSE k \in (j+1)..Len(commentLines) :
             /\ includes(commentLines[k], <<"i","t","(","\"">>)
             /\ \A m \in (j+1)..(k-1) : ~includes(commentLines[m], <<"i","t","(","\"">>)]
    ELSE <<>>

\* const testLine = commentLines[j + 1]; an undefined line is, like the empty
\* one, falsy
testLineAfter(commentLines, j) ==
    IF j + 1 <= Len(commentLines) THEN commentLines[j + 1] ELSE <<>>

\* what the block that ends at line j pushes
testDoc(commentLines, commentBlock, j) ==
    LET testLine == testLineAfter(commentLines, j)
    IN  IF testLine # <<>> /\ includes(testLine, <<"i","t","(","\"">>) /\ testMatch(testLine).found
        THEN << DocMetadata(testMatch(testLine).group,
                            TagOr(commentBlock, <<"@","c","a","t","e","g","o","r","y">>, General),
                            TagOr(commentBlock, <<"@","c","h","a","p","t","e","r">>, General),
                            TagOr(commentBlock, <<"@","d","e","s","c","r","i","p","t","i","o","n">>, <<>>)) >>
        ELSE <<>>

\* a mutant of whileCondition: the line is tested without j < commentLines.length
whileConditionUnguarded(commentLines, j) ==
    IF j > Len(commentLines) THEN "TypeError"
    ELSE IF includes(commentLines[j], <<"*","/">>) THEN "false" ELSE "true"

\* j < commentLines.length && !commentLines[j].includes("*/"): "true", "false",
\* or the TypeError of a method called on undefined
whileCondition(commentLines, j) ==
    IF j > Len(commentLines) THEN "false"
    ELSE IF includes(commentLines[j], <<"*","/">>) THEN "false" ELSE "true"

RECURSIVE extractTestDocsFrom(_, _)
\* the for loop of extractTestDocs from line i on (lines are counted from 1)
extractTestDocsFrom(commentLines, i) ==
    IF i > Len(commentLines) THEN <<>>
    ELSE IF includes(commentLines[i], <<"/","*","*">>)
    THEN LET j == BlockEnd(commentLines, i)
         IN  testDoc(commentLines, BlockText(commentLines, i, j), j)
             \o extractTestDocsFrom(commentLines, j + 1)
    ELSE extractTestDocsFrom(commentLines, i + 1)

\* extractTestDocs, of the content read from the file
extractTestDocs(s) == extractTestDocsFrom(split(s, "\n"), 1)

(***************************************************************************)
(* The extractors as pure functions: the content is any text of at most    *)
(* MaxLines lines drawn from DocLines, and each extractor is applied to    *)
(* it.                                                                     *)
(***************************************************************************)
DocLines ==
    { <<"/","*","*">>,
      <<" ","*"," ","@","t","i","t","l","e"," ","A"," ","b">>,
      <<" ","*"," ","@","c","a","t","e","g","o","r","y"," ","c">>,
      <<" ","*"," ","@","n","o","t","i","c","e"," ","n">>,
      <<" ","*","/">>,
      <<"c","o","n","t","r","a","c","t"," ","C"," ","{">>,
      <<"f","u","n","c","t","i","o","n"," ","f","(",")"," ","{">>,
      <<" "," ","i","t","(","\"","a"," ","b","!","\"",","," ","f",")",";">>,
      <<"x",";">>,
      <<"/","*","*"," ","@","c","h","a","p","t","e","r"," ","h"," ","*","/">> }

RECURSIVE LineSeqsUpTo(_)
LineSeqsUpTo(n) ==
    IF n = 0 THEN {<<>>}
    ELSE LET shorter == LineSeqsUpTo(n - 1)
         IN  shorter \cup {Append(ls, l) : ls \in {t \in shorter : Len(t) = n - 1},
                                           l \in DocLines}

RECURSIVE joinLines(_)
\* the text whose lines are ls
joinLines(ls) ==
    IF ls = <<>> THEN <<>>
    ELSE IF Len(ls) = 1 THEN ls[1]
    ELSE ls[1] \o <<"\n">> \o joinLines(Tail(ls))

DocTexts == { joinLines(ls) : ls \in LineSeqsUpTo(MaxLines) \ {<<>>} }

DocInit ==
    /\ FsInit
    /\ words = <<>>
    /\ content \in DocTexts
    /\ docs = <<>>
    /\ extractor = "none"
    /\ scan = <<>>

ExtractSolidity ==
    /\ extractor = "none"
    /\ docs' = extractSolidityDocs(content)
    /\ extractor' = "solidity"
    /\ UNCHANGED <<content, fsVars, words, scan>>

ExtractTest ==
    /\ extractor = "none"
    /\ docs' = extractTestDocs(content)
    /\ extractor' = "test"
    /\ UNCHANGED <<content, fsVars, words, scan>>

DocNext == ExtractSolidity \/ ExtractTest

SpecDoc == DocInit /\ [][DocNext]_vars

(***************************************************************************)
(* Properties of the extractors.                                           *)
(***************************************************************************)
ContentLines == split(content, "\n")

\* the line that closes a comment block opened at line i: the first line from
\* i on that contains "*/"; one past the last line when there is none
CloseOf(ls, i) ==
    LET closers == {j \in i..Len(ls) : includes(ls[j], <<"*","/">>)}
    IN  IF closers = {} THEN Len(ls) + 1
        ELSE CHOOSE j \in closers : \A k \in closers : j <= k

\* line i lies in no comment block opened on an earlier line
OutsideEarlierBlocks(ls) ==
    LET outside[i \in 1..Len(ls)] ==
            \A k \in 1..(i-1) :
                (outside[k] /\ includes(ls[k], <<"/","*","*">>)) => CloseOf(ls, k) < i
    IN  outside

\* the lines that open a comment block
BlockOpeners(ls) ==
    LET outside == OutsideEarlierBlocks(ls)
    IN  {i \in 1..Len(ls) : includes(ls[i], <<"/","*","*">>) /\ outside[i]}

\* a line holding a test declaration it("<title>": its title
DeclaredTitle(line) ==
    LET t == trim(line)
        close == IndexOf(t, <<"\"">>, 5)
    IN  IF HasAt(t, 1, <<"i","t","(","\"">>) /\ close > 5 THEN SubSeq(t, 5, close - 1) ELSE <<>>

IsTestDeclaration(line) == DeclaredTitle(line) # <<>>

\* the comment blocks a test declaration immediately follows
DeclaredBlocks(ls) ==
    {i \in BlockOpeners(ls) :
        /\ CloseOf(ls, i) + 1 <= Len(ls)
        /\ IsTestDeclaration(ls[CloseOf(ls, i) + 1])}

\* the k-th smallest element of a set of numbers
Nth(S, k) == CHOOSE x \in S : Cardinality({y \in S : y < x}) = k - 1

\* the lines that hold a @title tag, and the titles they give
TitleLines(ls) == {i \in 1..Len(ls) : includes(ls[i], <<"@","t","i","t","l","e"," ">>)}
TitleOf(line) == trim(SubSeq(line, IndexOf(line, <<"@","t","i","t","l","e"," ">>, 1) + 7, Len(line)))

TagLines ==
    { <<"/","*","*">>,
      <<" ","*"," ","@","t","i","t","l","e"," ","A"," ","b">>,
      <<" ","*"," ","@","c","a","t","e","g","o","r","y"," ","c">>,
      <<" ","*"," ","@","c","a","t","e","g","o","r","y">>,
      <<" ","*"," ","@","c","h","a","p","t","e","r"," ","h">>,
      <<" ","*","/">>,
      <<"c","o","n","t","r","a","c","t"," ","C"," ","{">>,
      <<" "," ","i","t","(","\"","a"," ","b","!","\"",","," ","f",")",";">> }

RECURSIVE LineSeqsOver(_, _)
\* the sequences of at most n lines of pool
LineSeqsOver(pool, n) ==
    IF n = 0 THEN {<<>>}
    ELSE LET shorter == LineSeqsOver(pool, n - 1)
         IN  shorter \cup {Append(ls, l) : ls \in {t \in shorter : Len(t) = n - 1},
                                           l \in pool}

TagTexts == { joinLines(ls) : ls \in LineSeqsOver(TagLines, MaxTagLines) \ {<<>>} }

TagInit ==
    /\ FsInit
    /\ words = <<>>
    /\ content \in TagTexts
    /\ docs = <<>>
    /\ extractor = "none"
    /\ scan = <<>>

SpecDocTags == TagInit /\ [][DocNext]_vars

\* the values the lines of ls give to tag: the text after the tag on its line
TagValues(ls, tag) ==
    { trim(SubSeq(ls[i], IndexOf(ls[i], tag, 1) + Len(tag), Len(ls[i]))) :
        i \in {j \in 1..Len(ls) : includes(ls[j], tag)} } \ {<<>>}

\* C11: every record extractSolidityDocs or extractTestDocs produces has a
\* non-empty category and a non-empty chapter: the value of a @category /
\* @chapter tag of the text, or "general".
C11_CategoryAndChapterNonEmpty ==
    \A k \in 1..Len(docs) :
        /\ docs[k].category # <<>>
        /\ docs[k].chapter # <<>>
        /\ docs[k].category \in {General} \cup TagValues(ContentLines, <<"@","c","a","t","e","g","o","r","y">>)
        /\ docs[k].chapter \in {General} \cup TagValues(ContentLines, <<"@","c","h","a","p","t","e","r">>)

(***************************************************************************)
(* generateMarkdown (generate-docs.ts).  An object used as a map is a      *)
(* sequence of entries in insertion order, as EXAMPLE_CATEGORIES is; a     *)
(* file written is kept as its lines.                                      *)
(***************************************************************************)
\* String.prototype.toLowerCase, for the letters A to Z
toLowerCaseChar(c) ==
    IF \E i \in 1..Len(UpperCase) : UpperCase[i] = c
    THEN LowerCase[CHOOSE i \in 1..Len(UpperCase) : UpperCase[i] = c]
    ELSE c

toLowerCase(s) == [i \in 1..Len(s) |-> toLowerCaseChar(s[i])]

RECURSIVE replaceWhitespaceRuns(_)
\* s.replace(/\s+/g, "-"): every run of white space becomes one hyphen
replaceWhitespaceRuns(s) ==
    IF s = <<>> THEN <<>>
    ELSE IF Head(s) \in Whitespace
         THEN <<"-">> \o replaceWhitespaceRuns(SubSeq(s, SkipWhitespace(s, 1), Len(s)))
         ELSE <<Head(s)>> \o replaceWhitespaceRuns(Tail(s))

Digits == <<"0","1","2","3","4","5","6","7","8","9">>

\* a property name that is an array index ("0", "7", "12"): Object.entries
\* lists these first, in ascending order
IsArrayIndex(key) ==
    /\ key # <<>>
    /\ \A i \in 1..Len(key) : \E d \in 1..Len(Digits) : Digits[d] = key[i]
    /\ (Len(key) > 1 => key[1] # "0")
    /\ Len(key) <= 9

RECURSIVE IndexValue(_)
IndexValue(key) ==
    IF key = <<>> THEN 0
    ELSE 10 * IndexValue(SubSeq(key, 1, Len(key) - 1))
         + (CHOOSE d \in 1..Len(Digits) : Digits[d] = key[Len(key)]) - 1

\* Object.entries(table): the array-index keys in ascending order, then the
\* other keys in insertion order
ObjectEntries(table) ==
    LET before(i, j) ==
            IF IsArrayIndex(table[i].key)
            THEN IsArrayIndex(table[j].key) => IndexValue(table[i].key) < IndexValue(table[j].key)
            ELSE ~IsArrayIndex(table[j].key) /\ i < j
        rank(i) == Cardinality({j \in 1..Len(table) : j # i /\ before(j, i)}) + 1
    IN  [k \in 1..Len(table) |-> table[CHOOSE i \in 1..Len(table) : rank(i) = k]]

\* if (!by[key]) by[key] = []; by[key].push(item): by[key] reads an own
\* property or one inherited from Object.prototype; an inherited one is an
\* object without push, and the call throws
push(by, key, item) ==
    IF \E i \in 1..Len(by.table) : by.table[i].key = key
    THEN [by EXCEPT !.table =
             [i \in 1..Len(@) |-> IF @[i].key = key
                                  THEN [@[i] EXCEPT !.value = Append(@, item)]
                                  ELSE @[i]]]
    ELSE IF key \in ObjectPrototypeKeys
         THEN [by EXCEPT !.thrown = TRUE]
         ELSE [by EXCEPT !.table = Append(@, [key |-> key, value |-> <<item>>])]

RECURSIVE groupFrom(_, _, _, _)
\* items.forEach((item) => { ... by[item[field]].push(item) }), from item i
groupFrom(by, items, field, i) ==
    IF i > Len(items) \/ by.thrown THEN by
    ELSE groupFrom(push(by, items[i][field], items[i]), items, field, i + 1)

\* the grouping of items by a field: the entries, or thrown
groupBy(items, field) == groupFrom([table |-> <<>>, thrown |-> FALSE], items, field, 1)

\* the lines one item adds to the content
ItemLines(item) ==
    << "### " \o Str(item.name), "" >>
    \o (IF item.description # <<>> THEN << Str(item.description), "" >> ELSE <<>>)
    \o << "---", "" >>

RECURSIVE ItemsLines(_)
ItemsLines(items) ==
    IF items = <<>> THEN <<>> ELSE ItemLines(Head(items)) \o ItemsLines(Tail(items))

RECURSIVE CategoriesLines(_)
\* Object.entries(byCategory).forEach: a heading and the items of each category
CategoriesLines(entries) ==
    IF entries = <<>> THEN <<>>
    ELSE << "## " \o Str(Head(entries).key), "" >> \o ItemsLines(Head(entries).value)
         \o CategoriesLines(Tail(entries))

\* the content of a chapter file, as its lines (the text ends with a line
\* break, so the last line is empty)
ChapterContent(chapter, byCategory) ==
    << "# " \o Str(chapter) \o " Examples", "" >>
    \o CategoriesLines(ObjectEntries(byCategory.table)) \o << "" >>

ChapterFilename(chapter) == replaceWhitespaceRuns(toLowerCase(chapter))

RECURSIVE writeChaptersFrom(_, _, _, _)
\* Object.entries(byChapter).forEach(([chapter, items]) => ...), from entry i
writeChaptersFrom(w, entries, outputPath, i) ==
    IF i > Len(entries) \/ ~Running(w) THEN w
    ELSE LET chapter == entries[i].key
             filepath == pathJoin(outputPath, ChapterFilename(chapter) \o <<".","m","d">>)
             byCategory == groupBy(entries[i].value, "category")
             w1 == IF byCategory.thrown
                   THEN throw(w, "TypeError: byCategory[item.category].push is not a function")
                   ELSE log(writeFileSync(w, filepath, ChapterContent(chapter, byCategory)),
                            "Generated: " \o PathStr(filepath))
         IN  writeChaptersFrom(w1, entries, outputPath, i + 1)

generateMarkdown(w, allDocs, outputPath) ==
    LET byChapter == groupBy(allDocs, "chapter")
    IN  IF byChapter.thrown
        THEN throw(w, "TypeError: byChapter[doc.chapter].push is not a function")
        ELSE writeChaptersFrom(w, ObjectEntries(byChapter.table), outputPath, 1)

(***************************************************************************)
(* generateAPIReference and generateDocumentation (generate-docs.ts).  A   *)
(* file the generator reads holds its text as characters.                  *)
(***************************************************************************)
\* fs.readFileSync(p, "utf-8"): the text, or an error nothing catches
readFileSync(w, p) ==
    IF ~Running(w) THEN [w |-> w, text |-> <<>>]
    ELSE IF p \in w.dirs THEN [w |-> throw(w, "Error: EISDIR"), text |-> <<>>]
    ELSE IF p \notin DOMAIN w.files THEN [w |-> throw(w, "Error: ENOENT"), text |-> <<>>]
    ELSE [w |-> [w EXCEPT !.events = Append(@, Event("read", JoinPath(p)))],
          text |-> w.files[p]]

\* the characters \w matches
WordChars ==
    {LowerCase[i] : i \in 1..Len(LowerCase)} \cup {UpperCase[i] : i \in 1..Len(UpperCase)}
    \cup {Digits[i] : i \in 1..Len(Digits)} \cup {"_"}

\* the index after the longest run of word characters that starts at i
EndOfWord(s, i) ==
    IF \E k \in i..Len(s) : s[k] \notin WordChars
    THEN CHOOSE k \in i..Len(s) :
             s[k] \notin WordChars /\ \A m \in i..(k-1) : s[m] \in WordChars
    ELSE Len(s) + 1

NoWord == [start |-> 0, end |-> 0]

\* \s+(\w+) from index ws, the white space ending before index word
WordAfter(s, ws, word) ==
    IF word > ws /\ word <= Len(s) /\ s[word] \in WordChars
    THEN [start |-> word, end |-> EndOfWord(s, word)]
    ELSE NoWord

\* <keyword>\s+(\w+) at index p: the index of the word and the index after it,
\* NoWord when s has no such match at p
KeywordThenWord(s, p, keyword) ==
    IF HasAt(s, p, keyword)
    THEN WordAfter(s, p + Len(keyword), SkipWhitespace(s, p + Len(keyword)))
    ELSE NoWord

\* the least element of a non-empty set of indices
Leftmost(at) == CHOOSE p \in at : \A q \in at : p <= q

\* group 1 of the match of /contract\s+(\w+)/ at the least index of at,
\* "Contract" when at is empty
contractNameAt(s, at) ==
    IF at = {} THEN <<"C","o","n","t","r","a","c","t">>
    ELSE SubSeq(s, KeywordThenWord(s, Leftmost(at), <<"c","o","n","t","r","a","c","t">>).start,
                   KeywordThenWord(s, Leftmost(at), <<"c","o","n","t","r","a","c","t">>).end - 1)

\* contractMatch ? contractMatch[1] : "Contract", for
\* contractMatch = content.match(/contract\s+(\w+)/)
contractName(s) ==
    contractNameAt(s, {p \in 1..Len(s) : KeywordThenWord(s, p, <<"c","o","n","t","r","a","c","t">>).start # 0})

NoFunction == [found |-> FALSE, group |-> <<>>, lastIndex |-> 0]

\* ...\{ : the match ends with the brace
FunctionBrace(s, name, brace) ==
    IF brace = 0 THEN NoFunction
    ELSE [found |-> TRUE, group |-> SubSeq(s, name.start, name.end - 1),
          lastIndex |-> brace + 1]

\* ...\)[^{]*\{ : after the ")" the first "{"
FunctionClose(s, name, close) ==
    IF close = 0 THEN NoFunction
    ELSE FunctionBrace(s, name, IndexOf(s, <<"{">>, close + 1))

\* ...\s*\([^)]*\) : after the white space a "(", then the first ")"
FunctionOpen(s, name, open) ==
    IF open > Len(s) THEN NoFunction
    ELSE IF s[open] # "(" THEN NoFunction
    ELSE FunctionClose(s, name, IndexOf(s, <<")">>, open + 1))

FunctionAfterName(s, name) ==
    IF name.start = 0 THEN NoFunction
    ELSE FunctionOpen(s, name, SkipWhitespace(s, name.end))

\* the match of /function\s+(\w+)\s*\([^)]*\)[^{]*\{/ at index p
FunctionMatchAt(s, p) == FunctionAfterName(s, KeywordThenWord(s, p, <<"f","u","n","c","t","i","o","n">>))

FunctionMatchIn(s, at) == IF at = {} THEN NoFunction ELSE FunctionMatchAt(s, Leftmost(at))

\* functionRegex.exec(content) with lastIndex = from: the leftmost match
FunctionRegexExec(s, from) ==
    FunctionMatchIn(s, {p \in from..Len(s) : FunctionMatchAt(s, p).found})

RECURSIVE functionsFrom(_, _)
RECURSIVE functionsAfter(_, _)
\* functions.push(match[1]), and the loop goes on from match's lastIndex
functionsAfter(s, match) ==
    IF match.found THEN <<match.group>> \o functionsFrom(s, match.lastIndex) ELSE <<>>

\* while ((match = functionRegex.exec(content)) !== null) functions.push(match[1])
functionsFrom(s, from) == functionsAfter(s, FunctionRegexExec(s, from))

\* the content of api-reference.md, as its lines (a backquote of the source
\* is written ' here)
ApiDocOf(name, functions) ==
    << "# API Reference", "", "## " \o Str(name), "" >>
    \o (IF Len(functions) > 0
        THEN << "### Functions", "" >>
             \o [i \in 1..Len(functions) |-> "- '" \o Str(functions[i]) \o "()'"]
             \o << "" >>
        ELSE <<>>)
    \o << "" >>

ApiDoc(s) == ApiDocOf(contractName(s), functionsFrom(s, 1))

writeApiDoc(read, apiPath) ==
    log(writeFileSync(read.w, apiPath, ApiDoc(read.text)), "Generated: " \o PathStr(apiPath))

generateAPIReference(w, contractPath, outputPath) ==
    writeApiDoc(readFileSync(w, contractPath), pathJoin(outputPath, <<"a","p","i","-","r","e","f","e","r","e","n","c","e",".","m","d">>))

\* file.endsWith(suffix)
endsWith(s, suffix) ==
    Len(s) >= Len(suffix) /\ SubSeq(s, Len(s) - Len(suffix) + 1, Len(s)) = suffix

\* the names a directory of the model can hold, as characters
FileNames ==
    { <<"a",".","t","e","s","t",".","t","s">>, <<"b",".","s","p","e","c",".","t","s">>, <<"n","o","t","e","s",".","m","d">>, <<"A",".","s","o","l">>, <<"B",".","s","o","l">> }

\* fs.readdirSync(dir): the names of the entries of dir; the order is the
\* file system's
readdirSync(w, dir) ==
    {n \in FileNames : existsSync(w, dir \o <<Str(n)>>)}

\* the orders in which readdirSync can list names
Orders(names) ==
    {o \in [1..Cardinality(names) -> names] : \A i, j \in 1..Cardinality(names) : o[i] = o[j] => i = j}

\* allDocs.push(...testDocs) for the test file read: run is the process and
\* allDocs so far
pushTestDocs(run, read) ==
    [w |-> read.w,
     allDocs |-> IF Running(read.w) THEN run.allDocs \o extractTestDocs(read.text)
                 ELSE run.allDocs]

testFile(run, testDir, file) ==
    IF endsWith(file, <<".","t","e","s","t",".","t","s">>) \/ endsWith(file, <<".","s","p","e","c",".","t","s">>)
    THEN pushTestDocs(run, readFileSync(run.w, testDir \o <<Str(file)>>))
    ELSE run

RECURSIVE testFilesFrom(_, _, _, _)
\* fs.readdirSync(testDir).forEach, from the i-th name listed
testFilesFrom(run, testDir, order, i) ==
    IF i > Len(order) \/ ~Running(run.w) THEN run
    ELSE testFilesFrom(testFile(run, testDir, order[i]), testDir, order, i + 1)

\* a mutant of pushSolidityDocs: the chapter files of a contract's records are
\* written as soon as the contract is scanned
pushSolidityDocsAndWrite(run, read, path, docsDir) ==
    [w |-> generateMarkdown(generateAPIReference(read.w, path, docsDir),
                            IF Running(read.w) THEN extractSolidityDocs(read.text) ELSE <<>>,
                            docsDir),
     allDocs |-> IF Running(read.w) THEN run.allDocs \o extractSolidityDocs(read.text)
                 ELSE run.allDocs]

\* allDocs.push(...solidityDocs); generateAPIReference(path, docsDir)
pushSolidityDocs(run, read, path, docsDir) ==
    [w |-> generateAPIReference(read.w, path, docsDir),
     allDocs |-> IF Running(read.w) THEN run.allDocs \o extractSolidityDocs(read.text)
                 ELSE run.allDocs]

contractFile(run, contractDir, docsDir, file) ==
    IF endsWith(file, <<".","s","o","l">>)
    THEN pushSolidityDocs(run, readFileSync(run.w, contractDir \o <<Str(file)>>),
                          contractDir \o <<Str(file)>>, docsDir)
    ELSE run

RECURSIVE contractFilesFrom(_, _, _, _, _)
\* fs.readdirSync(contractDir).forEach, from the i-th name listed
contractFilesFrom(run, contractDir, docsDir, order, i) ==
    IF i > Len(order) \/ ~Running(run.w) THEN run
    ELSE contractFilesFrom(contractFile(run, contractDir, docsDir, order[i]),
                           contractDir, docsDir, order, i + 1)

\* fs.readdirSync of a path that is a file is an error nothing catches
listing(w, dir) == IF dir \in DOMAIN w.files THEN throw(w, "Error: ENOTDIR") ELSE w

\* a mutant of markdownIfAny: generateMarkdown is called a second time
markdownTwice(w, allDocs, docsDir) ==
    IF Len(allDocs) > 0
    THEN generateMarkdown(generateMarkdown(w, allDocs, docsDir), allDocs, docsDir)
    ELSE w

\* if (allDocs.length > 0) generateMarkdown(allDocs, docsDir)
markdownIfAny(w, allDocs, docsDir) ==
    IF Len(allDocs) > 0 THEN generateMarkdown(w, allDocs, docsDir) ELSE w

\* if (!fs.existsSync(docsDir)) fs.mkdirSync(docsDir, { recursive: true })
ensureDir(w, dir) == IF ~existsSync(w, dir) THEN mkdirSync(w, dir) ELSE w

\* a mutant of processTests: the directory is read without the existsSync test
processTestsUnchecked(w, testDir, testOrder) ==
    IF existsSync(w, testDir)
    THEN testFilesFrom([w |-> listing(w, testDir), allDocs |-> <<>>], testDir, testOrder, 1)
    ELSE [w |-> throw(w, "Error: ENOENT"), allDocs |-> <<>>]

\* if (fs.existsSync(testDir)) fs.readdirSync(testDir).forEach(...)
processTests(w, testDir, testOrder) ==
    IF existsSync(w, testDir)
    THEN testFilesFrom([w |-> listing(w, testDir), allDocs |-> <<>>], testDir, testOrder, 1)
    ELSE [w |-> w, allDocs |-> <<>>]

\* if (fs.existsSync(contractDir)) fs.readdirSync(contractDir).forEach(...)
processContracts(run, contractDir, docsDir, contractOrder) ==
    IF existsSync(run.w, contractDir)
    THEN contractFilesFrom([run EXCEPT !.w = listing(@, contractDir)],
                           contractDir, docsDir, contractOrder, 1)
    ELSE run

\* the end of generateDocumentation: the chapter files and the last message
finishDocumentation(run, docsDir) ==
    [w |-> log(markdownIfAny(run.w, run.allDocs, docsDir),
               "Documentation generated in: " \o PathStr(docsDir)),
     allDocs |-> run.allDocs]

\* generateDocumentation, with the orders in which the two directories are
\* listed; process.cwd() is the root of the model's paths
generateDocumentation(w, testOrder, contractOrder) ==
    finishDocumentation(
        processContracts(processTests(ensureDir(w, <<"docs">>), <<"test">>, testOrder),
                         <<"contracts">>, <<"docs">>, contractOrder),
        <<"docs">>)

(***************************************************************************)
(* The documentation generator: generateMarkdown applied to any sequence   *)
(* of at most MaxDocs records over a few chapters and categories, and      *)
(* generateAPIReference and the whole of generateDocumentation run on a    *)
(* disk whose test and contracts directories hold at most MaxFiles files   *)
(* each.                                                                   *)
(***************************************************************************)
MarkdownChapters == { <<"A"," "," ","b">>, <<"a","-","b">>, <<"c","o","n","s","t","r","u","c","t","o","r">> }
MarkdownCategories == { <<"g","e","n","e","r","a","l">>, <<"c">>, <<"c","o","n","s","t","r","u","c","t","o","r">> }

\* the records generateMarkdown is applied to: a title, with or without a
\* description
MarkdownRecords ==
    { DocMetadata(nd[1], category, chapter, nd[2]) :
        nd \in { << <<"t">>, <<>> >>, << <<"u">>, <<"d">> >> },
        category \in MarkdownCategories, chapter \in MarkdownChapters }

RECURSIVE RecordSeqsUpTo(_)
RecordSeqsUpTo(n) ==
    IF n = 0 THEN {<<>>}
    ELSE LET shorter == RecordSeqsUpTo(n - 1)
         IN  shorter \cup {Append(rs, r) : rs \in {t \in shorter : Len(t) = n - 1},
                                           r \in MarkdownRecords}

TestTexts ==
    { joinLines(<< <<"x",";">> >>),
      joinLines(<< <<"/","*","*">>, <<" ","*"," ","@","c","h","a","p","t","e","r"," ","h">>, <<" ","*","/">>, <<" "," ","i","t","(","\"","a"," ","b","!","\"",","," ","f",")",";">> >>) }

ContractTexts ==
    { joinLines(<< <<"x",";">> >>),
      joinLines(<< <<"c","o","n","t","r","a","c","t"," ","C"," ","{">>, <<"f","u","n","c","t","i","o","n"," ","f","(",")"," ","{">> >>),
      joinLines(<< <<"/","*","*">>, <<" ","*"," ","@","t","i","t","l","e"," ","A"," ","b">>, <<" ","*","/">>, <<"c","o","n","t","r","a","c","t"," ","D"," ","{">>,
                   <<"f","u","n","c","t","i","o","n"," ","f","(",")"," ","{">>, <<"f","u","n","c","t","i","o","n"," ","f","(","u","i","n","t"," ","a",")"," ","{">>, <<"f","u","n","c","t","i","o","n"," ","g","(",")"," ","p","u","b","l","i","c"," ","{">> >>) }

TestFileNames == { <<"a",".","t","e","s","t",".","t","s">>, <<"b",".","s","p","e","c",".","t","s">>, <<"n","o","t","e","s",".","m","d">> }
ContractFileNames == { <<"A",".","s","o","l">>, <<"B",".","s","o","l">>, <<"n","o","t","e","s",".","m","d">> }

\* the contents a directory can have: at most MaxFiles of the names, each
\* with one of the texts
DirContents(names, texts) ==
    UNION { [some -> texts] : some \in {s \in SUBSET names : Cardinality(s) <= MaxFiles} }

\* what ./test or ./contracts can be: absent, or a directory with its files
DirOptions(names, texts) ==
    {[present |-> FALSE, files |-> <<>>]}
    \cup {[present |-> TRUE, files |-> f] : f \in DirContents(names, texts)}

\* the disk with ./docs present or not, and ./test and ./contracts as given
Disk(hasDocs, test, contracts) ==
    LET testPaths == {<<"test", Str(n)>> : n \in DOMAIN test.files}
        contractPaths == {<<"contracts", Str(n)>> : n \in DOMAIN contracts.files}
    IN  [dirs |-> {<<>>} \cup (IF hasDocs THEN {<<"docs">>} ELSE {})
                  \cup (IF test.present THEN {<<"test">>} ELSE {})
                  \cup (IF contracts.present THEN {<<"contracts">>} ELSE {}),
         files |-> [p \in testPaths \cup contractPaths |->
                       IF p[1] = "test"
                       THEN test.files[CHOOSE n \in DOMAIN test.files : Str(n) = p[2]]
                       ELSE contracts.files[CHOOSE n \in DOMAIN contracts.files : Str(n) = p[2]]]]

Disks ==
    { Disk(hasDocs, test, contracts) :
        hasDocs \in BOOLEAN,
        test \in DirOptions(TestFileNames, TestTexts),
        contracts \in DirOptions(ContractFileNames, ContractTexts) }

GenInit ==
    /\ tool = "none" /\ argv = <<>> /\ stdout = <<>> /\ stderr = <<>>
    /\ exitCode = 0 /\ thrown = "" /\ runs = 0
    /\ prev = [tool |-> "none", argv |-> <<>>, exitCode |-> 0]
    /\ journal = <<>>
    /\ procs = <<>>
    /\ words = <<>> /\ content = <<>> /\ extractor = "none" /\ scan = <<>>
    /\ \/ /\ \E disk \in Disks : dirs = disk.dirs /\ files = disk.files
          /\ docs = <<>>
       \/ /\ dirs = {<<>>, <<"docs">>} /\ files = <<>>
          /\ docs \in RecordSeqsUpTo(MaxDocs) \ {<<>>}

\* the end of a call or run of the documentation generator
FinishGen(name, w) ==
    /\ dirs' = w.dirs
    /\ files' = w.files
    /\ tool' = name
    /\ stdout' = w.out
    /\ stderr' = w.err
    /\ exitCode' = w.code
    /\ thrown' = w.thrown
    /\ runs' = runs + 1
    /\ prev' = [tool |-> tool, argv |-> argv, exitCode |-> exitCode]
    /\ journal' = w.events
    /\ UNCHANGED <<argv, words, extractor, scan, procs>>

\* generateMarkdown(docs, "docs")
CallGenerateMarkdown ==
    /\ tool = "none"
    /\ FinishGen("generateMarkdown", generateMarkdown(Start, docs, <<"docs">>))
    /\ UNCHANGED <<content, docs>>

\* generateAPIReference(contracts/<file>, "docs") for a contract file of the
\* disk, ./docs being there as it is when generateDocumentation makes the call
CallGenerateAPIReference ==
    /\ tool = "none"
    /\ <<"docs">> \in dirs
    /\ \E n \in ContractFileNames :
          /\ endsWith(n, <<".","s","o","l">>)
          /\ <<"contracts", Str(n)>> \in DOMAIN files
          /\ content' = files[<<"contracts", Str(n)>>]
          /\ FinishGen("generateAPIReference",
                       generateAPIReference(Start, <<"contracts", Str(n)>>, <<"docs">>))
    /\ UNCHANGED docs

\* one run of generate-docs.ts
RunGenerateDocs ==
    /\ tool = "none"
    /\ \E testOrder \in Orders(readdirSync(Start, <<"test">>)),
          contractOrder \in Orders(readdirSync(Start, <<"contracts">>)) :
          LET run == generateDocumentation(Start, testOrder, contractOrder)
          IN  /\ docs' = run.allDocs
              /\ FinishGen("generate-docs", run.w)
    /\ UNCHANGED content

GenNext == CallGenerateMarkdown \/ CallGenerateAPIReference \/ RunGenerateDocs

SpecGen == GenInit /\ [][GenNext]_vars

(***************************************************************************)
(* The chapter files of generateMarkdown.                                  *)
(***************************************************************************)
\* the files of ./docs
DocFiles == {p \in DOMAIN files : Len(p) = 2 /\ p[1] = "docs"}

\* the distinct chapter values among records
ChaptersOf(records) == {records[k].chapter : k \in 1..Len(records)}

\* how many lines of a file are the given line
CountLines(lines, line) == Cardinality({i \in 1..Len(lines) : lines[i] = line})

\* how many of the records have the chapter and the name
RecordsOf(records, chapter, name) ==
    Cardinality({k \in 1..Len(records) :
                    records[k].chapter = chapter /\ records[k].name = name})

\* the file the chapter is documented to get: the chapter in lower case,
\* every white-space run a hyphen
ChapterFile(chapter) ==
    <<"docs", Str(replaceWhitespaceRuns(toLowerCase(chapter))) \o ".md">>

\* generateMarkdown has returned
MarkdownReturned == tool = "generateMarkdown" /\ thrown = ""

\* C12: after generateMarkdown returns, ./docs holds as many files as the
\* records have distinct chapters, each chapter has the file named after it,
\* and that file lists exactly the records of the chapter
C12_OneFilePerChapter ==
    MarkdownReturned =>
        /\ Cardinality(DocFiles) = Cardinality(ChaptersOf(docs))
        /\ \A chapter \in ChaptersOf(docs) :
              /\ ChapterFile(chapter) \in DocFiles
              /\ \A k \in 1..Len(docs) :
                    CountLines(files[ChapterFile(chapter)], "### " \o Str(docs[k].name))
                        = RecordsOf(docs, chapter, docs[k].name)

\* the distinct category values among records
CategoriesOf(records) == {records[k].category : k \in 1..Len(records)}

\* the lines that open a category subsection
SectionHeading(category) == "## " \o Str(category)
SectionHeadings == {SectionHeading(category) : category \in MarkdownCategories}

\* the lines of the subsection of the category: from its heading to the next
\* subsection heading
SectionOf(lines, category) ==
    LET start == CHOOSE i \in 1..Len(lines) : lines[i] = SectionHeading(category)
        later == {j \in (start + 1)..Len(lines) : lines[j] \in SectionHeadings}
        end == IF later = {} THEN Len(lines) + 1 ELSE Leftmost(later)
    IN  SubSeq(lines, start + 1, end - 1)

\* how many of the records have the category and the name
RecordsIn(records, category, name) ==
    Cardinality({k \in 1..Len(records) :
                    records[k].category = category /\ records[k].name = name})

\* C13: for records that share one chapter generateMarkdown writes one file,
\* with one subsection per distinct category, each record under the
\* subsection of its category
C13_OneSubsectionPerCategory ==
    (tool = "generateMarkdown" /\ Cardinality(ChaptersOf(docs)) = 1) =>
        /\ Cardinality(DocFiles) = 1
        /\ \A p \in DocFiles :
              /\ \A category \in CategoriesOf(docs) :
                    CountLines(files[p], SectionHeading(category)) = 1
              /\ Cardinality({i \in 1..Len(files[p]) : files[p][i] \in SectionHeadings})
                     = Cardinality(CategoriesOf(docs))
              /\ \A k \in 1..Len(docs) :
                    CountLines(SectionOf(files[p], docs[k].category),
                               "### " \o Str(docs[k].name))
                        = RecordsIn(docs, docs[k].category, docs[k].name)

\* the file generateAPIReference writes
ApiReferenceFile == <<"docs", "api-reference.md">>

\* the status line of a chapter file
GeneratedLine(chapter) == "Generated: " \o PathStr(ChapterFile(chapter))

\* the status lines of chapter files in the output
ChapterLines(out) ==
    {i \in 1..Len(out) : \E chapter \in MarkdownChapters \cup {General, <<"h">>} :
                            out[i] = GeneratedLine(chapter)}

\* C14: generateMarkdown applied to no records writes nothing; a run of
\* generateDocumentation that extracted no record leaves no chapter file, and
\* one that extracted records and ended writes the files of their chapters
\* once
C14_NoRecordsNoChapterFile ==
    [][ /\ (tool' = "generateMarkdown" /\ docs = <<>>) =>
               (files' = files /\ dirs' = dirs /\ stdout' = <<>> /\ thrown' = "")
        /\ (tool' = "generate-docs" /\ docs' = <<>>) =>
               /\ DOMAIN files' \ DOMAIN files \subseteq {ApiReferenceFile}
               /\ ChapterLines(stdout') = {}
        /\ (tool' = "generate-docs" /\ docs' # <<>> /\ thrown' = "") =>
               \A chapter \in ChaptersOf(docs') :
                   /\ ChapterFile(chapter) \in DOMAIN files'
                   /\ CountLines(stdout', GeneratedLine(chapter))
                          = Cardinality({c \in ChaptersOf(docs') :
                                            ChapterFile(c) = ChapterFile(chapter)})
      ]_vars

\* a run over a contract without documentation ended: the API reference is
\* the only file of ./docs
C14_Witness ==
    /\ tool = "generate-docs" /\ thrown = "" /\ docs = <<>>
    /\ DocFiles = {ApiReferenceFile}

(***************************************************************************)
(* The API reference.                                                      *)
(***************************************************************************)
\* the function names the model's contracts declare
DeclaredNames == { <<"f">>, <<"g">> }

\* name is declared in the text: function, white space, the name, "("
Declares(s, name) ==
    \E p \in 1..Len(s), ws \in {<<" ">>, <<" ", " ">>} :
        HasAt(s, p, <<"f","u","n","c","t","i","o","n">> \o ws \o name \o <<"(">>)

\* the bullet of a function name (a backquote is written ' here)
Bullet(name) == "- '" \o Str(name) \o "()'"

\* the first identifier after the contract keyword of the model's contracts
FirstContract(s) ==
    IF \E p \in 1..Len(s) : HasAt(s, p, <<"c","o","n","t","r","a","c","t"," ","C">>) \/ HasAt(s, p, <<"c","o","n","t","r","a","c","t"," ","D">>)
    THEN LET p == Leftmost({q \in 1..Len(s) :
                                HasAt(s, q, <<"c","o","n","t","r","a","c","t"," ","C">>) \/ HasAt(s, q, <<"c","o","n","t","r","a","c","t"," ","D">>)})
         IN  <<s[p + 9]>>
    ELSE <<"C","o","n","t","r","a","c","t">>

\* C15: api-reference.md is headed by the contract's name, "Contract" when
\* the text declares none, and lists each declared function name in one
\* bullet, a name declared several times once
C15_OneBulletPerFunctionName ==
    (tool = "generateAPIReference" /\ thrown = "") =>
        /\ ApiReferenceFile \in DOMAIN files
        /\ CountLines(files[ApiReferenceFile], "## " \o Str(FirstContract(content))) = 1
        /\ \A name \in DeclaredNames :
              CountLines(files[ApiReferenceFile], Bullet(name))
                  = IF Declares(content, name) THEN 1 ELSE 0

(***************************************************************************)
(* The category organizer's files.                                         *)
(***************************************************************************)
\* the paths of the files a run wrote, in the order of the writes
WritesOf(events) ==
    LET writes == SelectSeq(events, LAMBDA e : e.op = "write")
    IN  [i \in 1..Len(writes) |-> writes[i].arg]

\* every file but those of the set is as it was before the step
OtherFilesKept(written) ==
    /\ DOMAIN files' \ written = DOMAIN files \ written
    /\ \A p \in DOMAIN files \ written : files'[p] = files[p]

\* the directory dir/<key> of a category
CategoryRoot(dir, key) == dir \o <<Str(key)>>

\* C16: for every key of the category catalog createCategoryStructure(key,
\* dir) leaves dir/<key> a directory and writes exactly CATEGORY.md and then
\* README.md in it; CATEGORY.md has a line for every concept and one link
\* ../examples/<example>/README.md per example, README.md links every example
C16_CategoryStructure ==
    [][\A a \in CategoryArgvs :
        (RunOf("create-category", a) /\ IsCreate(a) /\ a[2] \in CategoryKeys) =>
            LET root == CategoryRoot(OutputRoot("create-category", a), a[2])
                category == Lookup(CATEGORIES, a[2])
                docFile == root \o <<"CATEGORY.md">>
                indexFile == root \o <<"README.md">>
            IN  /\ thrown' = "" /\ exitCode' = 0
                /\ root \in dirs'
                /\ WritesOf(journal') = << JoinPath(docFile), JoinPath(indexFile) >>
                /\ OtherFilesKept({docFile, indexFile})
                /\ \A i \in 1..Len(category.concepts.v) :
                      CountLines(files'[docFile], "- " \o category.concepts.v[i]) = 1
                /\ \A i \in 1..Len(category.examples.v) :
                      /\ CountLines(files'[docFile],
                                    "- [" \o category.examples.v[i] \o "](../examples/"
                                          \o category.examples.v[i] \o "/README.md)") = 1
                      /\ CountLines(files'[indexFile],
                                    "- [" \o category.examples.v[i] \o "]("
                                          \o category.examples.v[i] \o "/)") = 1
      ]_vars

\* `create basic-operations out` has run on a disk without ./out
C16_Witness ==
    /\ tool = "create-category"
    /\ argv = << CmdCreate, <<"b","a","s","i","c","-","o","p","e","r","a","t","i","o","n","s">>, <<"o","u","t">> >>
    /\ exitCode = 0
    /\ journal = << Event("mkdir", "out/basic-operations"),
                    Event("write", "out/basic-operations/CATEGORY.md"),
                    Event("log", "Generated category docs: out/basic-operations/CATEGORY.md"),
                    Event("write", "out/basic-operations/README.md"),
                    Event("log", "Created category structure: out/basic-operations") >>
    /\ <<"out", "basic-operations", "README.md">> \in DOMAIN files

CmdCreateAll == <<"c","r","e","a","t","e","-","a","l","l">>

\* the output directory of `create-all [dir]`
AllRoot(a) == IF Len(a) >= 2 THEN ArgPath(a[2]) ELSE <<"docs", "categories">>

RECURSIVE CategoryWritesFrom(_, _)
\* the writes of createCategoryStructure for the catalog's keys from the i-th
\* on, in catalog order
CategoryWritesFrom(dir, i) ==
    IF i > Len(CATEGORIES) THEN <<>>
    ELSE << JoinPath(CategoryRoot(dir, CATEGORIES[i].key) \o <<"CATEGORY.md">>),
            JoinPath(CategoryRoot(dir, CATEGORIES[i].key) \o <<"README.md">>) >>
         \o CategoryWritesFrom(dir, i + 1)

\* the lines of CATEGORIES.md that are no heading of level 2
IndexProse ==
    {"", "# FHEVM Example Categories", "This section organizes examples by learning category."}
    \cup {InterpolateText(CATEGORIES[i].value.description) : i \in 1..Len(CATEGORIES)}

\* the level-2 heading of the i-th category of the catalog
IndexHeading(i) ==
    "## [" \o Str(CATEGORIES[i].value.name.v) \o "](./" \o Str(CATEGORIES[i].key)
           \o "/README.md)"

\* C17: generateAllCategories(dir) runs createCategoryStructure once per
\* catalog key, in catalog order, and writes dir/CATEGORIES.md after the
\* last; dir then has the subdirectory of each category, no other directory
\* is made, and CATEGORIES.md has one level-2 heading per category, in catalog
\* order, linking its README.md
C17_AllCategories ==
    [][\A a \in CategoryArgvs :
        (RunOf("create-category", a) /\ Len(a) >= 1 /\ a[1] = CmdCreateAll) =>
            LET dir == AllRoot(a)
                index == dir \o <<"CATEGORIES.md">>
            IN  /\ thrown' = "" /\ exitCode' = 0
                /\ WritesOf(journal') = CategoryWritesFrom(dir, 1) \o <<JoinPath(index)>>
                /\ {CategoryRoot(dir, k) : k \in CategoryKeys} \subseteq dirs'
                /\ Cardinality({CategoryRoot(dir, k) : k \in CategoryKeys}) = Len(CATEGORIES)
                /\ dirs' \ dirs \subseteq
                       {CategoryRoot(dir, k) : k \in CategoryKeys} \cup Prefixes(dir)
                /\ SelectSeq(files'[index], LAMBDA line : line \notin IndexProse)
                       = [i \in 1..Len(CATEGORIES) |-> IndexHeading(i)]
      ]_vars

\* `create-all out` has run: the index is the last file written, after the
\* files of the last category of the catalog
C17_Witness ==
    /\ tool = "create-category"
    /\ argv = << CmdCreateAll, <<"o","u","t">> >>
    /\ exitCode = 0
    /\ Len(WritesOf(journal)) = 11
    /\ WritesOf(journal)[1] = "out/basic-operations/CATEGORY.md"
    /\ WritesOf(journal)[10] = "out/advanced-patterns/README.md"
    /\ WritesOf(journal)[11] = "out/CATEGORIES.md"
    /\ files[<<"out", "CATEGORIES.md">>][5] = "## [Basic Operations](./basic-operations/README.md)"

(***************************************************************************)
(* The commands the usage texts and the documentation show.                *)
(***************************************************************************)
CmdHelp == <<"h","e","l","p">>

\* the usage message of a script
UsageOf(script) == IF script = "create-example" THEN ExampleUsage ELSE CategoryUsage

\* C18: run with the single argument help, each script prints its usage,
\* writes nothing and exits with status 0, as with --help
C18_HelpShowsUsage ==
    [][\A script \in {"create-example", "create-category"} :
        RunOf(script, <<CmdHelp>>) =>
            /\ stdout' = UsageOf(script)
            /\ stderr' = <<>>
            /\ NothingWritten
            /\ exitCode' = 0
      ]_vars

\* the keys the documentation shows `list` printing
DocumentedKeys ==
    { <<"e","n","c","r","y","p","t","e","d","-","c","o","u","n","t","e","r">>, <<"e","n","c","r","y","p","t","e","d","-","a","r","i","t","h","m","e","t","i","c">>, <<"a","c","c","e","s","s","-","c","o","n","t","r","o","l","-","s","y","s","t","e","m">>,
      <<"u","s","e","r","-","d","e","c","r","y","p","t","i","o","n">>, <<"p","u","b","l","i","c","-","d","e","c","r","y","p","t","i","o","n">> }

\* the project of the key has been generated under the root
Generated(root, key) ==
    SixFiles(root \o <<Str(DisplayIdentifier(key))>>, Str(DisplayIdentifier(key)))
        \subseteq DOMAIN files'

\* C19: the create-example invocations the documentation shows succeed:
\* `create encrypted-counter` and `create access-control-system` generate the
\* project, `create-all` generates every example of the catalog, and `list`
\* prints the five documented keys
C19_DocumentedInvocationsSucceed ==
    [][\A a \in ExampleArgvs :
        RunOf("create-example", a) =>
            /\ a \in { <<CmdCreate, <<"e","n","c","r","y","p","t","e","d","-","c","o","u","n","t","e","r">>>>,
                       <<CmdCreate, <<"a","c","c","e","s","s","-","c","o","n","t","r","o","l","-","s","y","s","t","e","m">>>> } =>
                   exitCode' = 0 /\ thrown' = "" /\ Generated(<<>>, a[2])
            /\ a = <<CmdCreateAll>> =>
                   /\ exitCode' = 0 /\ thrown' = ""
                   /\ \A key \in ExampleKeys : Generated(<<>>, key)
            /\ a = <<CmdList>> =>
                   /\ exitCode' = 0 /\ thrown' = ""
                   /\ \A key \in DocumentedKeys : CountLines(stdout', Str(key)) = 1
      ]_vars

(***************************************************************************)
(* The order of the side effects of generateExample.                       *)
(***************************************************************************)
\* the six files of a project in the order they are documented to be
\* written, each with the status line that reports it
ProjectSteps(root, name) ==
    << [path |-> root \o <<"contracts", name \o ".sol">>, status |-> "[ok] Contract created: "],
       [path |-> root \o <<"test", name \o ".test.ts">>, status |-> "[ok] Test file created: "],
       [path |-> root \o <<"hardhat.config.ts">>, status |-> "[ok] Hardhat config created: "],
       [path |-> root \o <<"tsconfig.json">>, status |-> "[ok] TypeScript config created: "],
       [path |-> root \o <<"package.json">>, status |-> "[ok] Package.json created: "],
       [path |-> root \o <<"README.md">>, status |-> "[ok] README created: "] >>

\* the positions of the events of a kind in a journal
EventsAt(events, op) == {i \in 1..Len(events) : events[i].op = op}

\* what each of the six files holds once written
ProjectContents(key) ==
    LET config == Lookup(EXAMPLE_CATEGORIES, key)
    IN  << generateContractTemplate(config.name, config.category),
           generateTestTemplate(Str(DisplayIdentifier(key))),
           generateHardhatConfigTemplate,
           TsconfigJson,
           PackageJson(key, config.description),
           Readme(config) >>

\* C20: generateExample for a catalog key makes the directory tree before it
\* writes any file, writes the contract, the test, the Hardhat configuration,
\* the TypeScript configuration, package.json and the README in this order,
\* prints the status line of a file right after writing it, before the next
\* write, and leaves each file holding what was written whatever it held
C20_SideEffectsInOrder ==
    [][\A a \in ExampleArgvs :
        (RunOf("create-example", a) /\ IsCreate(a) /\ a[2] \in ExampleKeys) =>
            LET root == ProjectRoot(a)
                steps == ProjectSteps(root, Str(DisplayIdentifier(a[2])))
                written == ProjectContents(a[2])
            IN  /\ WritesOf(journal') = [k \in 1..Len(steps) |-> JoinPath(steps[k].path)]
                /\ \A i \in EventsAt(journal', "mkdir"), j \in EventsAt(journal', "write") :
                      i < j
                /\ EightDirs(root) \subseteq dirs'
                /\ \A i \in EventsAt(journal', "write") :
                      /\ i < Len(journal')
                      /\ journal'[i + 1].op = "log"
                      /\ \E k \in 1..Len(steps) :
                            /\ journal'[i].arg = JoinPath(steps[k].path)
                            /\ journal'[i + 1].arg = steps[k].status \o JoinPath(steps[k].path)
                /\ \A k \in 1..Len(steps) :
                      /\ CountLines(stdout', steps[k].status \o JoinPath(steps[k].path)) = 1
                      /\ files'[steps[k].path] = written[k]
      ]_vars

\* `create encrypted-counter` has run a second time: no directory is made,
\* the six files are written again over those of the first run
C20_Witness ==
    /\ runs = 2
    /\ tool = "create-example" /\ prev.tool = "create-example"
    /\ argv = << CmdCreate, <<"e","n","c","r","y","p","t","e","d","-","c","o","u","n","t","e","r">> >> /\ prev.argv = argv
    /\ exitCode = 0 /\ prev.exitCode = 0
    /\ EventsAt(journal, "mkdir") = {}
    /\ WritesOf(journal) = << "EncryptedCounter/contracts/EncryptedCounter.sol",
                              "EncryptedCounter/test/EncryptedCounter.test.ts",
                              "EncryptedCounter/hardhat.config.ts",
                              "EncryptedCounter/tsconfig.json",
                              "EncryptedCounter/package.json",
                              "EncryptedCounter/README.md" >>

(***************************************************************************)
(* The scripts run on a disk where a write cannot succeed: the path of one *)
(* of the files to write is taken by a directory, and fs.writeFileSync     *)
(* fails with EISDIR.                                                      *)
(***************************************************************************)
\* the output directories of the runs on such a disk
FaultRoots == { <<>>, <<"examples">> }

\* the paths of the files of the projects and categories
ExampleFilePaths ==
    UNION { SixFiles(root \o <<Str(DisplayIdentifier(key))>>, Str(DisplayIdentifier(key))) :
              root \in FaultRoots, key \in ExampleKeys }

CategoryFilePaths ==
    { <<"out", Str(key), name>> : key \in CategoryKeys, name \in {"CATEGORY.md", "README.md"} }
    \cup { <<"out", "CATEGORIES.md">> }

\* the disks: empty, or with a directory at the path of one file
FaultInit ==
    /\ \/ dirs = {<<>>}
       \/ \E p \in ExampleFilePaths \cup CategoryFilePaths : dirs = Prefixes(p)
    /\ files = <<>>
    /\ tool = "none" /\ argv = <<>> /\ stdout = <<>> /\ stderr = <<>>
    /\ exitCode = 0 /\ thrown = "" /\ runs = 0
    /\ prev = [tool |-> "none", argv |-> <<>>, exitCode |-> 0]
    /\ journal = <<>>
    /\ procs = <<>>
    /\ words = <<>> /\ DocIdle

FaultExampleArgvs ==
    { <<CmdCreate, key>> : key \in ExampleKeys }
    \cup { <<CmdCreate, key, <<".","/","e","x","a","m","p","l","e","s">>>> : key \in ExampleKeys }

FaultCategoryArgvs ==
    { <<CmdCreate, key, <<"o","u","t">>>> : key \in CategoryKeys }
    \cup { <<<<"c","r","e","a","t","e","-","a","l","l">>, <<"o","u","t">>>> }

\* create-example.ts create <key> [dir], once
FaultyCreateExample ==
    /\ runs = 0
    /\ \E args \in FaultExampleArgvs :
          Finish("create-example", args, exampleMain(Start, args))

\* create-category.ts create <key> out, or create-all out, once
FaultyCreateCategory ==
    /\ runs = 0
    /\ \E args \in FaultCategoryArgvs :
          Finish("create-category", args, categoryMain(Start, args))

FaultNext == FaultyCreateExample \/ FaultyCreateCategory

SpecFault == FaultInit /\ [][FaultNext]_vars

\* the steps of a project whose file cannot be written on the disk as it is
Blocked(steps) == {k \in 1..Len(steps) : steps[k].path \in dirs}

\* C21: when the k-th write of generateExample fails the process ends with
\* the error: the directories and the files of the steps before it are on
\* disk with their content, no file of a later step is written, no status
\* line of a later step and no success message is printed, and nothing that
\* was on disk is removed
C21_FailedWriteLeavesPartialProject ==
    [][\A a \in FaultExampleArgvs :
        RunOf("create-example", a) =>
            LET root == ProjectRoot(a)
                steps == ProjectSteps(root, Str(DisplayIdentifier(a[2])))
                written == ProjectContents(a[2])
            IN  Blocked(steps) # {} =>
                    LET k == Leftmost(Blocked(steps))
                    IN  /\ thrown' # "" /\ exitCode' # 0
                        /\ dirs \subseteq dirs'
                        /\ EightDirs(root) \subseteq dirs'
                        /\ WritesOf(journal') = [j \in 1..(k - 1) |-> JoinPath(steps[j].path)]
                        /\ \A j \in 1..(k - 1) : files'[steps[j].path] = written[j]
                        /\ \A j \in k..Len(steps) :
                              /\ steps[j].path \notin DOMAIN files'
                              /\ CountLines(stdout', steps[j].status \o JoinPath(steps[j].path)) = 0
                        /\ CountLines(stdout', "\nExample project created successfully!") = 0
      ]_vars

\* `create encrypted-counter` has run on a disk where hardhat.config.ts is a
\* directory: the contract and the test are written, tsconfig.json is not
C21_Witness ==
    /\ tool = "create-example" /\ argv = << CmdCreate, <<"e","n","c","r","y","p","t","e","d","-","c","o","u","n","t","e","r">> >>
    /\ thrown = "Error: EISDIR"
    /\ <<"EncryptedCounter", "hardhat.config.ts">> \in dirs
    /\ <<"EncryptedCounter", "test", "EncryptedCounter.test.ts">> \in DOMAIN files
    /\ <<"EncryptedCounter", "tsconfig.json">> \notin DOMAIN files
    /\ WritesOf(journal) = << "EncryptedCounter/contracts/EncryptedCounter.sol",
                              "EncryptedCounter/test/EncryptedCounter.test.ts" >>

(***************************************************************************)
(* extractSolidityDocs applied to texts with several comment blocks: any   *)
(* text of at most MaxBlockLines lines drawn from BlockLines.              *)
(***************************************************************************)
BlockLines ==
    { <<"/","*","*">>, <<" ","*"," ","@","t","i","t","l","e"," ","A"," ","b">>, <<" ","*","/">>, <<"/","*","*"," ","@","c","h","a","p","t","e","r"," ","h"," ","*","/">>, <<"c","o","n","t","r","a","c","t"," ","C"," ","{">>, <<"x",";">> }

BlockTexts == { joinLines(ls) : ls \in LineSeqsOver(BlockLines, MaxBlockLines) \ {<<>>} }

BlockInit ==
    /\ FsInit
    /\ words = <<>>
    /\ content \in BlockTexts
    /\ docs = <<>>
    /\ extractor = "none"
    /\ scan = <<>>

SpecDocBlocks == BlockInit /\ [][DocNext]_vars

\* the line starts, after white space, with contract or function
IsDeclaration(line) ==
    HasAt(trim(line), 1, <<"c","o","n","t","r","a","c","t">>) \/ HasAt(trim(line), 1, <<"f","u","n","c","t","i","o","n">>)

\* the comment blocks that are closed and that a declaration follows on the
\* next line
DeclaredComments(ls) ==
    {i \in BlockOpeners(ls) :
        /\ CloseOf(ls, i) + 1 <= Len(ls)
        /\ IsDeclaration(ls[CloseOf(ls, i) + 1])}

\* the part of a line before its first "*/"
BeforeClose(line) ==
    IF includes(line, <<"*","/">>)
    THEN SubSeq(line, 1, IndexOf(line, <<"*","/">>, 1) - 1)
    ELSE line

\* the lines of the body of the comment block opened at line i
BodyOf(ls, i) == [j \in 1..(CloseOf(ls, i) - i + 1) |-> BeforeClose(ls[i + j - 1])]

\* C22: every record of extractSolidityDocs belongs to a comment block that a
\* contract or function declaration immediately follows, and its title,
\* category, chapter and description are those of the body of that block
C22_RecordFromOneDeclaredBlock ==
    extractor = "solidity" =>
        /\ Len(docs) <= Cardinality(DeclaredComments(ContentLines))
        /\ \A k \in 1..Len(docs) :
              \E i \in DeclaredComments(ContentLines) :
                  LET body == BodyOf(ContentLines, i)
                  IN  /\ docs[k].name \in TagValues(body, <<"@","t","i","t","l","e">>)
                      /\ docs[k].category \in {General} \cup TagValues(body, <<"@","c","a","t","e","g","o","r","y">>)
                      /\ docs[k].chapter \in {General} \cup TagValues(body, <<"@","c","h","a","p","t","e","r">>)
                      /\ docs[k].description \in {<<>>} \cup TagValues(body, <<"@","n","o","t","i","c","e">>)

(***************************************************************************)
(* The documentation run and the directories it reads.                     *)
(***************************************************************************)
\* the records of the file at the path before the step, none when there is
\* no such file
TestDocsAt(path) == IF path \in DOMAIN files THEN extractTestDocs(files[path]) ELSE <<>>
SolidityDocsAt(path) == IF path \in DOMAIN files THEN extractSolidityDocs(files[path]) ELSE <<>>

\* the records of the test files and of the contract files, in the orders
\* the directories can be listed in
TestRecords ==
    { TestDocsAt(<<"test", "a.test.ts">>) \o TestDocsAt(<<"test", "b.spec.ts">>),
      TestDocsAt(<<"test", "b.spec.ts">>) \o TestDocsAt(<<"test", "a.test.ts">>) }
ContractRecords ==
    { SolidityDocsAt(<<"contracts", "A.sol">>) \o SolidityDocsAt(<<"contracts", "B.sol">>),
      SolidityDocsAt(<<"contracts", "B.sol">>) \o SolidityDocsAt(<<"contracts", "A.sol">>) }

\* the contract files of the disk
SolFiles == {<<"contracts", "A.sol">>, <<"contracts", "B.sol">>} \cap DOMAIN files

\* C23: a run of generateDocumentation on a disk without ./test or without
\* ./contracts ends without error and with ./docs a directory, has processed
\* the directory that is there (its records are extracted, the API reference
\* of a contract file is written), and has written no file when both are
\* missing
C23_MissingDirectoryIsNothingToProcess ==
    [][(tool' = "generate-docs" /\ (<<"test">> \notin dirs \/ <<"contracts">> \notin dirs)) =>
            /\ thrown' = "" /\ exitCode' = 0
            /\ <<"docs">> \in dirs'
            /\ \E t \in TestRecords, c \in ContractRecords : docs' = t \o c
            /\ (SolFiles # {} => ApiReferenceFile \in DOMAIN files')
            /\ (docs' # <<>> => \A chapter \in ChaptersOf(docs') :
                                    ChapterFile(chapter) \in DOMAIN files')
            /\ (<<"test">> \notin dirs /\ <<"contracts">> \notin dirs) =>
                   files' = files /\ docs' = <<>>
      ]_vars

\* a run on a disk without ./test has documented the contract of ./contracts
C23_Witness ==
    /\ tool = "generate-docs" /\ thrown = ""
    /\ <<"test">> \notin dirs /\ <<"contracts", "A.sol">> \in DOMAIN files
    /\ docs = << DocMetadata(<<"A"," ","b">>, General, General, <<>>) >>
    /\ DocFiles = {ApiReferenceFile, <<"docs", "general.md">>}

(***************************************************************************)
(* The documentation run on a disk where one entry of ./test or            *)
(* ./contracts cannot be read: the entry is a directory, and               *)
(* fs.readFileSync fails with EISDIR.                                      *)
(***************************************************************************)
\* the disk with the file at path p turned into a directory
Unreadable(disk, p) ==
    [dirs |-> disk.dirs \cup {p},
     files |-> [q \in DOMAIN disk.files \ {p} |-> disk.files[q]]]

UnreadableDisks ==
    UNION { { Unreadable(Disk(FALSE, test, contracts), p) :
                p \in DOMAIN Disk(FALSE, test, contracts).files } :
            test \in DirOptions(TestFileNames, TestTexts),
            contracts \in DirOptions(ContractFileNames, ContractTexts) }

GenFaultInit ==
    /\ tool = "none" /\ argv = <<>> /\ stdout = <<>> /\ stderr = <<>>
    /\ exitCode = 0 /\ thrown = "" /\ runs = 0
    /\ prev = [tool |-> "none", argv |-> <<>>, exitCode |-> 0]
    /\ journal = <<>>
    /\ procs = <<>>
    /\ words = <<>> /\ DocIdle
    /\ \E disk \in UnreadableDisks : dirs = disk.dirs /\ files = disk.files

SpecGenFault == GenFaultInit /\ [][RunGenerateDocs]_vars

\* the entries of ./test and ./contracts the run is to read
EntriesToRead ==
    {p \in DOMAIN files \cup dirs :
        /\ Len(p) = 2
        /\ \/ p[1] = "test" /\ p[2] \in {"a.test.ts", "b.spec.ts"}
           \/ p[1] = "contracts" /\ p[2] \in {"A.sol", "B.sol"}}

\* the positions of the writes of chapter files in a journal
ChapterWrites(events) ==
    {i \in EventsAt(events, "write") : events[i].arg # JoinPath(ApiReferenceFile)}

\* C24: in a run of generateDocumentation every chapter file is written
\* after the last file is read, and a run that ends with a read error has
\* written no chapter file: the only file it can have added is
\* api-reference.md
C24_ChapterFilesAfterAllReads ==
    [][tool' = "generate-docs" =>
            /\ \A i \in ChapterWrites(journal'), j \in EventsAt(journal', "read") : j < i
            /\ ChapterWrites(journal') # {} =>
                   {journal'[j].arg : j \in EventsAt(journal', "read")}
                       = {JoinPath(p) : p \in EntriesToRead}
            /\ thrown' # "" =>
                   /\ ChapterWrites(journal') = {}
                   /\ ChapterLines(stdout') = {}
                   /\ DOMAIN files' \ DOMAIN files \subseteq {ApiReferenceFile}
                   /\ \A p \in DOMAIN files : files'[p] = files[p]
      ]_vars

\* a run has documented a contract, written its API reference, and failed
\* reading the next entry: its record has no chapter file
C24_Witness ==
    /\ tool = "generate-docs" /\ thrown = "Error: EISDIR"
    /\ docs = << DocMetadata(<<"A"," ","b">>, General, General, <<>>) >>
    /\ DocFiles = {ApiReferenceFile}
    /\ <<"contracts", "B.sol">> \in dirs

\* the files generateAllCategories is to write under dir, in order, each
\* with what it is to hold
CategorySteps(dir) ==
    [k \in 1..(2 * Len(CATEGORIES)) |->
        IF k % 2 = 1
        THEN [path |-> CategoryRoot(dir, CATEGORIES[(k + 1) \div 2].key) \o <<"CATEGORY.md">>,
              data |-> CategoryDocs(CATEGORIES[(k + 1) \div 2].value)]
        ELSE [path |-> CategoryRoot(dir, CATEGORIES[k \div 2].key) \o <<"README.md">>,
              data |-> CategoryIndex(CATEGORIES[k \div 2].value)]]
    \o << [path |-> dir \o <<"CATEGORIES.md">>, data |-> MainIndex] >>

\* C25: when a write fails while generateAllCategories processes a category
\* the run ends with the error: the files of the categories before it are on
\* disk complete, CATEGORY.md of the failing category too when it was
\* written, no file of a later category is written and CATEGORIES.md is not
C25_FailedCategoryWriteAborts ==
    [][RunOf("create-category", <<CmdCreateAll, <<"o","u","t">>>>) =>
            LET steps == CategorySteps(<<"out">>)
            IN  Blocked(steps) # {} =>
                    LET k == Leftmost(Blocked(steps))
                    IN  /\ thrown' # "" /\ exitCode' # 0
                        /\ WritesOf(journal') = [j \in 1..(k - 1) |-> JoinPath(steps[j].path)]
                        /\ \A j \in 1..(k - 1) : files'[steps[j].path] = steps[j].data
                        /\ \A j \in k..Len(steps) : steps[j].path \notin DOMAIN files'
                        /\ \A c \in 1..Len(CATEGORIES) :
                              2 * c - 1 > k =>
                                  CategoryRoot(<<"out">>, CATEGORIES[c].key) \notin dirs'
                        /\ dirs \subseteq dirs'
      ]_vars

\* `create-all out` has run on a disk where README.md of the second category
\* is a directory
C25_Witness ==
    /\ tool = "create-category" /\ argv = << CmdCreateAll, <<"o","u","t">> >>
    /\ thrown = "Error: EISDIR"
    /\ <<"out", "encryption-patterns", "README.md">> \in dirs
    /\ <<"out", "encryption-patterns", "CATEGORY.md">> \in DOMAIN files
    /\ <<"out", "basic-operations", "README.md">> \in DOMAIN files
    /\ <<"out", "access-control">> \notin dirs
    /\ <<"out", "CATEGORIES.md">> \notin DOMAIN files


(***************************************************************************)
(* Two invocations of `create <key>` running at the same time on one file  *)
(* system.  Each is its own Node process; a step is one synchronous call   *)
(* of fs (existsSync, mkdirSync, writeFileSync), and the steps of the two  *)
(* interleave in any order.                                                *)
(***************************************************************************)
Invocations == {"first", "second"}

\* the calls of fs generateExample makes for a catalog key, in order: the
\* directories of createProjectStructure, then the six files
GenerateProgram(exampleKey, outputDir) ==
    LET config == Lookup(EXAMPLE_CATEGORIES, exampleKey)
        projectName == convertToCamelCase(exampleKey)
        projectPath == pathJoin(pathJoin(<<>>, outputDir), projectName)
    IN  [i \in 1..Len(ProjectDirs) |->
            [op |-> "dir", path |-> projectPath \o ProjectDirs[i], data |-> <<>>]] \o
        << [op |-> "write", path |-> projectPath \o <<"contracts", Str(projectName) \o ".sol">>,
            data |-> generateContractTemplate(config.name, config.category)],
           [op |-> "write", path |-> projectPath \o <<"test", Str(projectName) \o ".test.ts">>,
            data |-> generateTestTemplate(Str(projectName))],
           [op |-> "write", path |-> projectPath \o <<"hardhat.config.ts">>,
            data |-> generateHardhatConfigTemplate],
           [op |-> "write", path |-> projectPath \o <<"tsconfig.json">>,
            data |-> TsconfigJson],
           [op |-> "write", path |-> projectPath \o <<"package.json">>,
            data |-> PackageJson(exampleKey, config.description)],
           [op |-> "write", path |-> projectPath \o <<"README.md">>,
            data |-> Readme(config)] >>

\* both invocations at the start of generateExample, on an empty disk or on
\* one that holds the project's docs directory already
ConcInit ==
    /\ files = <<>>
    /\ tool = "create-example"
    /\ stdout = <<>> /\ stderr = <<>> /\ exitCode = 0 /\ thrown = "" /\ runs = 0
    /\ prev = [tool |-> "none", argv |-> <<>>, exitCode |-> 0]
    /\ journal = <<>>
    /\ words = <<>> /\ DocIdle
    /\ \E key \in ExampleKeys :
          /\ argv = <<CmdCreate, key>>
          /\ dirs \in { {<<>>}, Prefixes(<<Str(convertToCamelCase(key)), "docs">>) }
          /\ procs = [p \in Invocations |->
                        [todo |-> GenerateProgram(key, <<".">>), checked |-> FALSE,
                         status |-> "running", raced |-> FALSE]]

\* the invocation's next call of fs, when it has one
AtStep(p, op) ==
    /\ procs[p].status = "running"
    /\ procs[p].todo # <<>>
    /\ Head(procs[p].todo).op = op

\* the invocation after a call of fs that left the world w; raced when the
\* call made a directory another invocation had made since the check
Advance(p, w, raced) ==
    /\ dirs' = w.dirs
    /\ files' = w.files
    /\ thrown' = IF w.status = "thrown" THEN w.thrown ELSE thrown
    /\ exitCode' = IF w.status = "thrown" THEN w.code ELSE exitCode
    /\ procs' = [procs EXCEPT ![p] =
                    IF w.status = "thrown"
                    THEN [@ EXCEPT !.status = "thrown"]
                    ELSE [todo |-> Tail(@.todo), checked |-> FALSE,
                          status |-> IF Len(@.todo) = 1 THEN "done" ELSE "running",
                          raced |-> @.raced \/ raced]]
    /\ UNCHANGED <<tool, argv, stdout, stderr, runs, prev, journal, words, docVars>>

\* if (!fs.existsSync(fullPath)): the directory is there, nothing to make
SkipDir(p) ==
    /\ AtStep(p, "dir")
    /\ ~procs[p].checked
    /\ existsSync(Start, Head(procs[p].todo).path)
    /\ Advance(p, Start, FALSE)

\* if (!fs.existsSync(fullPath)): the directory is missing, mkdirSync is next
CheckDir(p) ==
    /\ AtStep(p, "dir")
    /\ ~procs[p].checked
    /\ ~existsSync(Start, Head(procs[p].todo).path)
    /\ procs' = [procs EXCEPT ![p].checked = TRUE]
    /\ UNCHANGED <<dirs, files, tool, argv, stdout, stderr, exitCode, thrown, runs, prev,
                   journal, words, docVars>>

\* fs.mkdirSync(fullPath, { recursive: true }) after the check
MakeDir(p) ==
    /\ AtStep(p, "dir")
    /\ procs[p].checked
    /\ Advance(p, mkdirSync(Start, Head(procs[p].todo).path),
               existsSync(Start, Head(procs[p].todo).path))

\* fs.writeFileSync of one of the six files
WriteFile(p) ==
    /\ AtStep(p, "write")
    /\ Advance(p, writeFileSync(Start, Head(procs[p].todo).path, Head(procs[p].todo).data),
               FALSE)

ConcNext == \E p \in Invocations : SkipDir(p) \/ CheckDir(p) \/ MakeDir(p) \/ WriteFile(p)

SpecConc == ConcInit /\ [][ConcNext]_vars

\* a single run of generate for the key on an empty disk
SingleRun(key) ==
    generateExample([dirs |-> {<<>>}, files |-> <<>>, out |-> <<>>, err |-> <<>>,
                     status |-> "running", code |-> 0, thrown |-> "", events |-> <<>>],
                    key, <<".">>)

\* C26: when two invocations of generate with the same key and output
\* directory interleave their directory creations and file writes, neither
\* fails because of the other (mkdirSync after the check succeeds although
\* the other invocation made the directory in between), a write leaves the
\* file holding what this writer wrote and the other files untouched, and
\* once both are done the directories and files are those of a single run
C26_ConcurrentGenerateIsSingleRun ==
    /\ [](\A p \in Invocations : procs[p].status # "thrown")
    /\ [](thrown = "")
    /\ []((\A p \in Invocations : procs[p].status = "done") =>
            LET w == SingleRun(argv[2])
            IN  dirs = w.dirs /\ files = w.files /\ w.status = "running")
    /\ [][\A p \in Invocations :
            WriteFile(p) =>
              LET step == Head(procs[p].todo)
              IN  /\ step.path \in DOMAIN files'
                  /\ files'[step.path] = step.data
                  /\ \A q \in DOMAIN files : q # step.path =>
                        q \in DOMAIN files' /\ files'[q] = files[q]
       ]_vars

\* both invocations are done, and one of them made a directory the other had
\* checked for and found missing
C26_Witness ==
    /\ \A p \in Invocations : procs[p].status = "done"
    /\ \E p \in Invocations : procs[p].raced
    /\ Cardinality(DOMAIN files) = 6
    /\ thrown = ""


(***************************************************************************)
(* Where a record is listed in the chapter files.                          *)
(***************************************************************************)
\* the lines a record is documented to give: its title heading, its
\* description paragraph when it has one, a separator
ListedAs(record) ==
    << "### " \o Str(record.name), "" >>
    \o (IF record.description = <<>> THEN <<>> ELSE << Str(record.description), "" >>)
    \o << "---", "" >>

RECURSIVE ListedFrom(_, _, _, _)
\* the lines of the records of the chapter and category, in the records' order
ListedFrom(records, chapter, category, k) ==
    IF k > Len(records) THEN <<>>
    ELSE (IF records[k].chapter = chapter /\ records[k].category = category
          THEN ListedAs(records[k]) ELSE <<>>)
         \o ListedFrom(records, chapter, category, k + 1)

\* the title headings of all the chapter files together
TitleHeadings ==
    {<<p, i>> \in DocFiles \X (1..30) :
        p # ApiReferenceFile /\ i <= Len(files[p])
        /\ \E r \in MarkdownRecords : files[p][i] = "### " \o Str(r.name)}

\* C27: every record passed to generateMarkdown is listed exactly once: the
\* file of its chapter has one subsection for its category, that subsection
\* holds the records of the chapter and category in the order they were
\* passed (each as title heading, description paragraph when non-empty, and
\* separator), and the chapter files together hold as many title headings as
\* there are records
C27_EachRecordListedOnceInOrder ==
    tool = "generateMarkdown" =>
        /\ \A k \in 1..Len(docs) :
              LET p == ChapterFile(docs[k].chapter)
              IN  /\ p \in DOMAIN files
                  /\ CountLines(files[p], SectionHeading(docs[k].category)) = 1
                  /\ SectionOf(files[p], docs[k].category) \in
                        { <<"">> \o ListedFrom(docs, docs[k].chapter, docs[k].category, 1),
                          <<"">> \o ListedFrom(docs, docs[k].chapter, docs[k].category, 1)
                                 \o <<"">> }
        /\ Cardinality(TitleHeadings) = Len(docs)


(***************************************************************************)
(* The example keys of the category catalog against the example catalog.   *)
(***************************************************************************)
\* the keys `create` of create-example.ts finds in EXAMPLE_CATEGORIES
ExampleNames == {Str(key) : key \in ExampleKeys}

\* the examples CATEGORY.md of the category links to
LinkedExamples(docFile, category) ==
    {i \in 1..Len(category.examples.v) :
        \E n \in 1..Len(docFile) :
            docFile[n] = "- [" \o category.examples.v[i] \o "](../examples/"
                               \o category.examples.v[i] \o "/README.md)"}

\* C28: every example key of an entry of the category catalog is a key of
\* the example catalog, so every example CATEGORY.md links to after
\* `create <category>` is an example `create` of create-example.ts accepts
C28_CategoryExamplesAreExampleKeys ==
    (tool = "create-category" /\ IsCreate(argv) /\ argv[2] \in CategoryKeys /\ thrown = "") =>
        LET category == Lookup(CATEGORIES, argv[2])
            docFile == CategoryRoot(OutputRoot("create-category", argv), argv[2])
                           \o <<"CATEGORY.md">>
        IN  /\ docFile \in DOMAIN files
            /\ LinkedExamples(files[docFile], category) = 1..Len(category.examples.v)
            /\ \A i \in LinkedExamples(files[docFile], category) :
                  category.examples.v[i] \in ExampleNames


(***************************************************************************)
(* The API reference of a run over several contract files, one of which    *)
(* may document its contract under a chapter of its own choosing.          *)
(***************************************************************************)
ApiTexts ==
    ContractTexts \cup
    { joinLines(<< <<"/","*","*">>, <<" ","*"," ","@","t","i","t","l","e"," ","A"," ","b">>, <<" ","*"," ","@","c","h","a","p","t","e","r"," ","A","P","I"," ","R","e","f","e","r","e","n","c","e">>, <<" ","*","/">>,
                   <<"c","o","n","t","r","a","c","t"," ","E"," ","{">>, <<"f","u","n","c","t","i","o","n"," ","h","(",")"," ","{">> >>) }

ApiInit ==
    /\ tool = "none" /\ argv = <<>> /\ stdout = <<>> /\ stderr = <<>>
    /\ exitCode = 0 /\ thrown = "" /\ runs = 0
    /\ prev = [tool |-> "none", argv |-> <<>>, exitCode |-> 0]
    /\ journal = <<>>
    /\ procs = <<>>
    /\ words = <<>> /\ DocIdle
    /\ \E hasDocs \in BOOLEAN,
          test \in DirOptions(TestFileNames, TestTexts),
          contracts \in DirOptions(ContractFileNames, ApiTexts) :
          /\ dirs = Disk(hasDocs, test, contracts).dirs
          /\ files = Disk(hasDocs, test, contracts).files

SpecGenApi == ApiInit /\ [][RunGenerateDocs]_vars

\* the positions of the journal where the file is written
WritesTo(events, p) ==
    {i \in 1..Len(events) : events[i].op = "write" /\ events[i].arg = JoinPath(p)}

\* the positions of the journal where a contract file is read
ContractReads(events) ==
    {i \in 1..Len(events) :
        events[i].op = "read" /\ \E p \in SolFiles : events[i].arg = JoinPath(p)}

\* the contract file the run processed last
LastContract(events) ==
    CHOOSE p \in SolFiles :
        \E i \in ContractReads(events) :
            /\ events[i].arg = JoinPath(p)
            /\ \A j \in ContractReads(events) : j <= i

\* C29: in a run of generateDocumentation that ends, every contract file is
\* followed by a write of docs/api-reference.md, and after the run the file
\* holds the API reference of the contract file processed last
C29_ApiReferenceOfLastContract ==
    [][(tool' = "generate-docs" /\ thrown' = "" /\ SolFiles # {}) =>
            /\ \A i \in ContractReads(journal') :
                  \E n \in WritesTo(journal', ApiReferenceFile) : n > i
            /\ ApiReferenceFile \in DOMAIN files'
            /\ files'[ApiReferenceFile] = ApiDoc(files[LastContract(journal')])
      ]_vars


(***************************************************************************)
(* The loops of extractTestDocs, one test or statement at a time: the for  *)
(* loop over the lines with index i, the while loop that looks for the     *)
(* line closing a comment block with index j.  Lines are counted from 1.   *)
(***************************************************************************)
ScanLines ==
    { <<"/","*","*">>, <<" ","*","/">>, <<" "," ","i","t","(","\"","a"," ","b","!","\"",","," ","f",")",";">>, <<"/","*","*"," ","@","c","h","a","p","t","e","r"," ","h"," ","*","/">> }

ScanTexts == { joinLines(ls) : ls \in LineSeqsOver(ScanLines, MaxLines) \ {<<>>} }

\* extractTestDocs has been called and has yet to read the file
ScanInit ==
    /\ FsInit
    /\ words = <<>>
    /\ content = <<>>
    /\ docs = <<>>
    /\ extractor = "test"
    /\ scan = [commentLines |-> <<>>, i |-> 1, j |-> 0, at |-> "read"]

\* const content = fs.readFileSync(filePath, "utf-8"); const docs = [];
\* const commentLines = content.split("\n")
ReadText ==
    /\ scan # <<>> /\ scan.at = "read"
    /\ \E text \in ScanTexts :
          /\ content' = text
          /\ scan' = [scan EXCEPT !.commentLines = split(text, "\n"), !.at = "for"]
    /\ UNCHANGED <<docs, extractor, fsVars, words>>

\* for (let i = 0; i < commentLines.length; i++) and the test of the line:
\* a line with "/**" opens a block (let j = i), any other line is passed
ForTest ==
    /\ scan # <<>> /\ scan.at = "for"
    /\ scan' = IF scan.i > Len(scan.commentLines) THEN [scan EXCEPT !.at = "returned"]
               ELSE IF includes(scan.commentLines[scan.i], <<"/","*","*">>)
               THEN [scan EXCEPT !.at = "while", !.j = scan.i]
               ELSE [scan EXCEPT !.i = @ + 1]
    /\ UNCHANGED <<content, docs, extractor, fsVars, words>>

\* while (j < commentLines.length && !commentLines[j].includes("*/")) j++
WhileTest ==
    /\ scan # <<>> /\ scan.at = "while"
    /\ scan' = IF whileCondition(scan.commentLines, scan.j) = "true"
               THEN [scan EXCEPT !.j = @ + 1]
               ELSE IF whileCondition(scan.commentLines, scan.j) = "false"
               THEN [scan EXCEPT !.at = "push"]
               ELSE [scan EXCEPT !.at = "thrown"]
    /\ UNCHANGED <<content, docs, extractor, fsVars, words>>

\* the rest of the body: the block's record when a test follows, i = j, i++
PushDoc ==
    /\ scan # <<>> /\ scan.at = "push"
    /\ docs' = docs \o testDoc(scan.commentLines, BlockText(scan.commentLines, scan.i, scan.j), scan.j)
    /\ scan' = [scan EXCEPT !.at = "for", !.i = scan.j + 1]
    /\ UNCHANGED <<content, extractor, fsVars, words>>

ScanNext == ReadText \/ ForTest \/ WhileTest \/ PushDoc

\* the process runs as long as it has a step to take
SpecScan == ScanInit /\ [][ScanNext]_vars /\ WF_vars(ScanNext)

\* where the control is, in the order of one iteration of the for loop
ScanRank(at) ==
    IF at = "read" THEN 0 ELSE IF at = "for" THEN 1 ELSE IF at = "while" THEN 2
    ELSE IF at = "push" THEN 3 ELSE 4

\* C30: extractTestDocs returns on every text and no step raises an error;
\* every step advances the scan (i grows, or within one iteration the control
\* moves on or j grows); the end of a comment block leaves i past the block;
\* a block that is never closed runs to the end of the text, adds no record
\* and leaves no line to scan; what is returned is the function's result
C30_ScanTerminates ==
    /\ <>(scan.at = "returned")
    /\ [](scan.at # "thrown")
    /\ [](scan.at = "returned" => docs = extractTestDocs(content))
    /\ [][/\ \/ scan'.i > scan.i
             \/ scan'.i = scan.i /\ ScanRank(scan'.at) > ScanRank(scan.at)
             \/ scan'.i = scan.i /\ scan'.at = scan.at /\ scan'.j > scan.j
          /\ PushDoc => /\ scan'.i > scan.i
                        /\ scan'.i > scan.j
                        /\ scan.j > Len(scan.commentLines) =>
                              docs' = docs /\ scan'.i > Len(scan.commentLines)
         ]_vars

\* a text whose first block gave a record and whose last block is never
\* closed has been scanned to the end
C30_Witness ==
    /\ scan # <<>> /\ scan.at = "returned"
    /\ scan.j = Len(scan.commentLines) + 1
    /\ docs # <<>>

====
